---- MODULE Spec2Model ----
(***************************************************************************)
(* Model of the evaluation-case generator (generate_eval_datasets.py) and  *)
(* of the grader (example_eval_usage.py).                                  *)
(*                                                                         *)
(* Numbers.  A Python float is modelled as an integer count of quanta:     *)
(* one unit is Scale quanta, one hundredth is SubCent quanta.  Additions,  *)
(* subtractions and products of the small table values are exact; a        *)
(* division rounds to the nearest quantum; round(x, 2) rounds to the       *)
(* nearest hundredth.  The float arithmetic of compare_results rounds to   *)
(* MantBits significant bits (Fl), as IEEE arithmetic does with 53.        *)
(*                                                                         *)
(* Python values.  A value is a record [k, v]: k is the type tag ("None",  *)
(* "nan", "num", "str", "dict"), v the payload (a dict's payload is a      *)
(* function from its keys to values).                                      *)
(***************************************************************************)
EXTENDS Integers, Sequences, FiniteSets, TLC

\* ------------------------------------------------------------------ bounds
\* quanta per hundredth: the resolution of a modelled float
SubCent == 10
\* significand bits of a modelled float
MantBits == 20
\* largest small number of the comparator's value universe
MaxNum == 1

Scale == 100 * SubCent

\* ------------------------------------------------------------ Python values
NoneV == [k |-> "None", v |-> 0]
NaNV == [k |-> "nan", v |-> 0]
Num(x) == [k |-> "num", v |-> x]
Str(s) == [k |-> "str", v |-> s]
Dict(f) == [k |-> "dict", v |-> f]

\* isinstance(x, dict)
IsDict(x) == x.k = "dict"
\* isinstance(x, (int, float)): None is neither, NaN is a float
IsNumber(x) == x.k \in {"num", "nan"}

Abs(x) == IF x < 0 THEN -x ELSE x

RECURSIVE Pow2(_)
Pow2(n) == IF n = 0 THEN 1 ELSE 2 * Pow2(n - 1)

\* the spacing of the floats around magnitude m: 1 while m < 2^MantBits
RECURSIVE Ulp(_, _)
Ulp(m, step) == IF m < step * Pow2(MantBits) THEN step ELSE Ulp(m, 2 * step)

\* round to the nearest float, ties to the even significand
Fl(x) ==
    LET m == Abs(x)
        step == Ulp(m, 1)
        q == m \div step
        r == m % step
        up == (2 * r > step) \/ (2 * r = step /\ q % 2 = 1)
        n == (IF up THEN q + 1 ELSE q) * step
    IN  IF x < 0 THEN -n ELSE n

\* float addition and subtraction
FAdd(a, b) == Fl(a + b)
FSub(a, b) == Fl(a - b)

\* faulty variant: None is taken for a zero
PyEqNoneIsZero(a, b) == (a = b) \/ ({a, b} = {NoneV, Num(0)})

\* actual == expected of the last branch of compare_results: both operands are
\* never both numbers there, so Python's == is equality of type and payload
PyEq(a, b) == a = b

\* faulty variant: a key missing from expected is forgiven
KeySetsLenient(a, e) == DOMAIN e.v \subseteq DOMAIN a.v

\* set(expected.keys()) != set(actual.keys()) gives False
KeySetsEqual(a, e) == DOMAIN e.v = DOMAIN a.v

\* faulty variant: the boundary is exclusive
NumericMatchStrict(a, e, tol) == Abs(FSub(a, e)) < tol

\* faulty variant: the tolerance is relative to the expected magnitude
NumericMatchRelative(a, e, tol) == Abs(FSub(a, e)) <= tol * Abs(e)

\* abs(actual - expected) <= tolerance, in float arithmetic
NumericMatch(a, e, tol) == Abs(FSub(a, e)) <= tol

RECURSIVE compare_results(_, _, _)
compare_results(a, e, tol) ==
    IF IsDict(e) /\ IsDict(a)
    THEN IF ~KeySetsEqual(a, e)
         THEN FALSE
         ELSE \A key \in DOMAIN e.v : compare_results(a.v[key], e.v[key], tol)
    ELSE IF IsNumber(e) /\ IsNumber(a)
         THEN IF a.k = "nan" \/ e.k = "nan"
              THEN FALSE
              ELSE NumericMatch(a.v, e.v, tol)
         ELSE PyEq(a, e)

\* ------------------------------------------------------------------ tables
\* A table is [columns, rows]: rows is a sequence of functions from the column
\* names to cells.  A numeric cell is a whole number of units or Missing (NaN);
\* a categorical cell is a string or MissingStr (an empty CSV field, read as
\* NaN); a Date cell is a day number.
Missing == -1
MissingStr == ""

CategoricalNames == {"Region", "Channel"}
NumericNames == {"Total Revenue", "Total Cost", "Clicks", "Conversions", "Sessions"}

\* select_dtypes(include=['float64', 'int64'])
numeric_columns(t) == t.columns \cap NumericNames
\* select_dtypes(include=['object']), without 'Date'
categorical_columns(t) == (t.columns \cap CategoricalNames) \ {"Date"}

RECURSIVE SeqSum(_)
SeqSum(s) == IF s = <<>> THEN 0 ELSE Head(s) + SeqSum(Tail(s))

SeqMin(s) == CHOOSE x \in {s[i] : i \in 1..Len(s)} : \A i \in 1..Len(s) : x <= s[i]
SeqMax(s) == CHOOSE x \in {s[i] : i \in 1..Len(s)} : \A i \in 1..Len(s) : x >= s[i]

\* a / b in float arithmetic, b > 0: the quotient rounded to the nearest whole, ties
\* to even (a is a count of quanta, the quotient too)
DivRound(a, b) ==
    LET m == Abs(a)
        q == m \div b
        r == m % b
        n == IF (2 * r > b) \/ (2 * r = b /\ q % 2 = 1) THEN q + 1 ELSE q
    IN  IF a < 0 THEN -n ELSE n

\* round(x, 2) of a float: the nearest hundredth, ties to even
Round2(x) == DivRound(x, SubCent) * SubCent

\* the cells of column c
Column(rows, c) == [i \in 1..Len(rows) |-> rows[i][c]]
\* the cells that are not NaN (skipna)
Present(vals) == SelectSeq(vals, LAMBDA x : x # Missing)

\* pandas reductions of a numeric column, as a float (quanta) or NaN
SeriesSum(vals) == Num(SeqSum(Present(vals)) * Scale)
SeriesCount(vals) == Num(Len(Present(vals)) * Scale)
SeriesMean(vals) ==
    IF Present(vals) = <<>> THEN NaNV
    ELSE Num(DivRound(SeqSum(Present(vals)) * Scale, Len(Present(vals))))
SeriesMin(vals) ==
    IF Present(vals) = <<>> THEN NaNV ELSE Num(SeqMin(Present(vals)) * Scale)
SeriesMax(vals) ==
    IF Present(vals) = <<>> THEN NaNV ELSE Num(SeqMax(Present(vals)) * Scale)

\* Series.agg(agg_func)
SeriesAgg(fn, vals) ==
    CASE fn = "sum" -> SeriesSum(vals)
      [] fn = "mean" -> SeriesMean(vals)
      [] fn = "min" -> SeriesMin(vals)
      [] fn = "max" -> SeriesMax(vals)
      [] fn = "count" -> SeriesCount(vals)

\* df.groupby(g)[m].agg(fn).to_dict(): the rows whose key is NaN are dropped
GroupKeys(rows, g) == {rows[i][g] : i \in 1..Len(rows)} \ {MissingStr}
GroupRows(rows, g, key) == SelectSeq(rows, LAMBDA r : r[g] = key)
GroupByAgg(rows, g, m, fn) ==
    [key \in GroupKeys(rows, g) |-> SeriesAgg(fn, Column(GroupRows(rows, g, key), m))]

\* df.groupby([g1, g2])[m].agg(fn): one group per observed pair without NaN, in
\* the sorted order of the pairs
PairKeys(rows, gs) ==
    {<<rows[i][gs[1]], rows[i][gs[2]]>> : i \in 1..Len(rows)}
        \ {p \in {<<rows[i][gs[1]], rows[i][gs[2]]>> : i \in 1..Len(rows)} :
              p[1] = MissingStr \/ p[2] = MissingStr}
PairRows(rows, gs, p) == SelectSeq(rows, LAMBDA r : r[gs[1]] = p[1] /\ r[gs[2]] = p[2])
GroupByPairAgg(rows, gs, m, fn) ==
    [p \in PairKeys(rows, gs) |-> SeriesAgg(fn, Column(PairRows(rows, gs, p), m))]

\* the sorted order of the categorical values
ValueOrder == <<"a", "a_b", "b", "b_c", "c", "x", "y">>
Rank(sv) == CHOOSE i \in 1..Len(ValueOrder) : ValueOrder[i] = sv
PairLE(p, q) == Rank(p[1]) < Rank(q[1]) \/ (p[1] = q[1] /\ Rank(p[2]) <= Rank(q[2]))

\* float(v) if pd.notna(v) else None
NotnaFloat(x) == IF x.k = "nan" THEN NoneV ELSE x

\* faulty variant: the key is the first column's value only
PairKeyGenFirst(p) == p[1]
\* f"{idx[0]}_{idx[1]}" of the generator
PairKeyGen(p) == p[1] \o "_" \o p[2]
\* faulty variant: the grader joins the key with another separator
PairKeyGraderDash(p) == p[1] \o "-" \o p[2]
\* "_".join(str(i) for i in idx) of the grader
PairKeyGrader(p) == p[1] \o "_" \o p[2]

\* a dict filled in the order of the pairs: the last pair of a key stays
LastPair(ps) == CHOOSE p \in ps : \A q \in ps : PairLE(q, p)

\* ------------------------------------------------- generate_aggregation_evals
\* expected_result of a single-column case
AggExpected(t, group_col, metric_col, agg_func) ==
    LET result == GroupByAgg(t.rows, group_col, metric_col, agg_func)
    IN  Dict([key \in DOMAIN result |-> NotnaFloat(result[key])])

\* the case of one iteration of the first loop
AggCase(t, group_col, metric_col, agg_func) ==
    [id |-> "agg_i",
     category |-> "data_aggregation",
     question |-> "q",
     group_by_column |-> group_col,
     metric_column |-> metric_col,
     aggregation_function |-> agg_func,
     expected_result |-> AggExpected(t, group_col, metric_col, agg_func)]

\* result_dict of a two-column case
AggMultiExpected(t, group_cols, metric_col, agg_func) ==
    LET result == GroupByPairAgg(t.rows, group_cols, metric_col, agg_func)
        keys == {PairKeyGen(p) : p \in DOMAIN result}
    IN  Dict([key \in keys |->
              NotnaFloat(result[LastPair({p \in DOMAIN result : PairKeyGen(p) = key})])])

\* the case of one iteration of the second loop
AggMultiCase(t, group_cols, metric_col, agg_func) ==
    [id |-> "agg_multi_i",
     category |-> "data_aggregation_multi_group",
     question |-> "q",
     group_by_columns |-> group_cols,
     metric_column |-> metric_col,
     aggregation_function |-> agg_func,
     expected_result |-> AggMultiExpected(t, group_cols, metric_col, agg_func)]

AggFunctions == {"sum", "mean", "min", "max", "count"}
AggMultiFunctions == {"sum", "mean", "count"}

\* ----------------------------------------------------- test_aggregation_case
\* what a test_* function gives: it raised, or returned passed, having computed actual
Raised == [raised |-> TRUE, passed |-> FALSE, actual |-> NoneV]
Returned(b, a) == [raised |-> FALSE, passed |-> b, actual |-> a]

\* the default tolerance of compare_results, 0.01
DefaultTolerance == 1 * SubCent

Has(c, field) == field \in DOMAIN c

AggActualMulti(t, group_col, metric_col, agg_func) ==
    LET result == GroupByPairAgg(t.rows, group_col, metric_col, agg_func)
        keys == {PairKeyGrader(p) : p \in DOMAIN result}
    IN  Dict([key \in keys |->
              NotnaFloat(result[LastPair({p \in DOMAIN result : PairKeyGrader(p) = key})])])

AggActualSingle(t, group_col, metric_col, agg_func) ==
    LET result == GroupByAgg(t.rows, group_col, metric_col, agg_func)
    IN  Dict([key \in DOMAIN result |-> NotnaFloat(result[key])])

test_aggregation_case(c, t) ==
    IF ~(Has(c, "metric_column") /\ Has(c, "aggregation_function")
         /\ Has(c, "expected_result")
         /\ (Has(c, "group_by_column") \/ Has(c, "group_by_columns")))
    THEN Raised
    ELSE IF c.metric_column \notin t.columns
    THEN Raised
    ELSE IF Has(c, "group_by_column")
    THEN IF c.group_by_column \notin t.columns
         THEN Raised
         ELSE LET a == AggActualSingle(t, c.group_by_column, c.metric_column,
                                       c.aggregation_function)
              IN  Returned(compare_results(a, c.expected_result, DefaultTolerance), a)
    ELSE IF \E i \in 1..Len(c.group_by_columns) : c.group_by_columns[i] \notin t.columns
         THEN Raised
         ELSE LET a == AggActualMulti(t, c.group_by_columns, c.metric_column,
                                      c.aggregation_function)
              IN  Returned(compare_results(a, c.expected_result, DefaultTolerance), a)

\* ---------------------------------------------- generate_time_comparison_evals
\* strftime('%Y-%m-%d') of a day and pd.to_datetime of that text
DayStr == <<"2024-01-01", "2024-01-02", "2024-01-03", "2024-01-04">>
Days == {i - 1 : i \in DOMAIN DayStr}
Strftime(d) == DayStr[d + 1]
ToDatetime(text) == (CHOOSE i \in DOMAIN DayStr : DayStr[i] = text) - 1

\* df.sort_values('Date'): on a short table numpy sorts by insertion, equal dates
\* keep their order
RECURSIVE InsertByDate(_, _)
InsertByDate(sorted, r) ==
    IF sorted = <<>> THEN <<r>>
    ELSE IF Head(sorted)["Date"] <= r["Date"]
         THEN <<Head(sorted)>> \o InsertByDate(Tail(sorted), r)
         ELSE <<r>> \o sorted
RECURSIVE SortByDate(_)
SortByDate(rows) ==
    IF rows = <<>> THEN <<>>
    ELSE InsertByDate(SortByDate(SubSeq(rows, 1, Len(rows) - 1)), rows[Len(rows)])

sort_values(t) == [t EXCEPT !.rows = SortByDate(t.rows)]

\* (max - min).days
DateRange(rows) == SeqMax(Column(rows, "Date")) - SeqMin(Column(rows, "Date"))
\* min + timedelta(days=date_range // 2)
SplitPoint(rows) == SeqMin(Column(rows, "Date")) + (DateRange(rows) \div 2)

\* faulty variant: the midpoint day is counted in period 1 as well
Period1WithSplit(rows) == SelectSeq(rows, LAMBDA r : r["Date"] <= SplitPoint(rows))
\* self.df[self.df['Date'] < split_point]
Period1(rows) == SelectSeq(rows, LAMBDA r : r["Date"] < SplitPoint(rows))
\* self.df[self.df['Date'] >= split_point]
Period2(rows) == SelectSeq(rows, LAMBDA r : r["Date"] >= SplitPoint(rows))

\* period_df[metric_col].sum(), in units
PeriodSum(rows, metric_col) == SeqSum(Present(Column(rows, metric_col)))

\* a / b * 100 in float arithmetic, b > 0 (a and b in the same unit), in quanta
FDivMul100(a, b) == DivRound(a * 100 * Scale, b)
\* a / b in float arithmetic, b > 0, in quanta
FDiv(a, b) == DivRound(a * Scale, b)

\* faulty variant: a zero base gives a change of 0 in place of None
GenPercentChangeZero(v1, v2) ==
    IF v1 # 0 THEN Num(Round2(FDivMul100(v2 - v1, v1))) ELSE Num(0)

\* ((v2 - v1) / v1 * 100) if v1 != 0 else None, then float(round(.., 2))
GenPercentChange(v1, v2) ==
    IF v1 # 0 THEN Num(Round2(FDivMul100(v2 - v1, v1))) ELSE NoneV

\* a period's dict of the case: start, end, value
PeriodDict(rows, metric_col) ==
    Dict([f \in {"start", "end", "value"} |->
            CASE f = "start" -> Str(Strftime(SeqMin(Column(rows, "Date"))))
              [] f = "end" -> Str(Strftime(SeqMax(Column(rows, "Date"))))
              [] f = "value" -> Num(PeriodSum(rows, metric_col) * Scale)])

\* f"{min} to {max}"
PeriodStr(rows) ==
    Str(Strftime(SeqMin(Column(rows, "Date"))) \o " to "
        \o Strftime(SeqMax(Column(rows, "Date"))))

\* expected_result of an ungrouped case
TimeExpected(rows, metric_col) ==
    LET v1 == PeriodSum(Period1(rows), metric_col)
        v2 == PeriodSum(Period2(rows), metric_col)
    IN  Dict([f \in {"period_1_value", "period_2_value", "absolute_difference",
                    "percent_change"} |->
            CASE f = "period_1_value" -> Num(v1 * Scale)
              [] f = "period_2_value" -> Num(v2 * Scale)
              [] f = "absolute_difference" -> Num((v2 - v1) * Scale)
              [] f = "percent_change" -> GenPercentChange(v1, v2)])

\* NaT.strftime raises when period 1 holds no row (a span under 2 days)
TimeGenRaises(rows) == Period1(rows) = <<>>

\* the case of one iteration of the first loop (rows: the sorted table)
TimeCase(rows, metric_col) ==
    [id |-> "time_comp_i",
     category |-> "time_period_comparison",
     question |-> "q",
     metric_column |-> metric_col,
     time_period_1 |-> PeriodDict(Period1(rows), metric_col),
     time_period_2 |-> PeriodDict(Period2(rows), metric_col),
     expected_result |-> TimeExpected(rows, metric_col)]

\* period_df.groupby(group_col)[metric_col].sum().to_dict(), in units
GroupedSums(rows, group_col, metric_col) ==
    [key \in GroupKeys(rows, group_col) |->
        PeriodSum(GroupRows(rows, group_col, key), metric_col)]

\* dict.get(group, 0)
GetOrZero(d, key) == IF key \in DOMAIN d THEN d[key] ELSE 0

\* comparison_result of a grouped case
TimeGroupedExpected(rows, metric_col, group_col) ==
    LET period1_grouped == GroupedSums(Period1(rows), group_col, metric_col)
        period2_grouped == GroupedSums(Period2(rows), group_col, metric_col)
        all_groups == DOMAIN period1_grouped \cup DOMAIN period2_grouped
    IN  Dict([group \in all_groups |->
            LET val1 == GetOrZero(period1_grouped, group)
                val2 == GetOrZero(period2_grouped, group)
            IN  Dict([f \in {"period_1", "period_2", "difference", "percent_change"} |->
                    CASE f = "period_1" -> Num(val1 * Scale)
                      [] f = "period_2" -> Num(val2 * Scale)
                      [] f = "difference" -> Num((val2 - val1) * Scale)
                      [] f = "percent_change" -> GenPercentChange(val1, val2)])])

\* the case of one iteration of the second loop
TimeGroupedCase(rows, metric_col, group_col) ==
    [id |-> "time_comp_grouped_i",
     category |-> "time_period_comparison_grouped",
     question |-> "q",
     metric_column |-> metric_col,
     group_by_column |-> group_col,
     time_period_1 |-> PeriodStr(Period1(rows)),
     time_period_2 |-> PeriodStr(Period2(rows)),
     expected_result |-> TimeGroupedExpected(rows, metric_col, group_col)]

\* ------------------------------------------------- test_time_comparison_case
\* the tolerance of the time-comparison and of the custom-metric grading, 0.1
WideTolerance == 10 * SubCent

\* faulty variant: the end of the window is exclusive
WindowExclusive(rows, start, end) ==
    SelectSeq(rows, LAMBDA r : r["Date"] >= start /\ r["Date"] < end)
\* df[(df['Date'] >= start) & (df['Date'] <= end)]
Window(rows, start, end) ==
    SelectSeq(rows, LAMBDA r : r["Date"] >= start /\ r["Date"] <= end)

\* faulty variant: the grader divides by a zero base and reports 0
GraderPercentChangeZero(v1, v2) ==
    IF v1 # 0 THEN Num(Round2(FDivMul100(v2 - v1, v1))) ELSE Num(0)

\* float(round((p2 - p1) / p1 * 100, 2)) if p1 != 0 and pd.notna(p1) else None
GraderPercentChange(v1, v2) ==
    IF v1 # 0 THEN Num(Round2(FDivMul100(v2 - v1, v1))) ELSE NoneV

TimeActual(c, t) ==
    LET p1 == c.time_period_1.v
        p2 == c.time_period_2.v
        v1 == PeriodSum(Window(t.rows, ToDatetime(p1["start"].v), ToDatetime(p1["end"].v)),
                        c.metric_column)
        v2 == PeriodSum(Window(t.rows, ToDatetime(p2["start"].v), ToDatetime(p2["end"].v)),
                        c.metric_column)
    IN  Dict([f \in {"period_1_value", "period_2_value", "absolute_difference",
                    "percent_change"} |->
            CASE f = "period_1_value" -> Num(v1 * Scale)
              [] f = "period_2_value" -> Num(v2 * Scale)
              [] f = "absolute_difference" -> Num((v2 - v1) * Scale)
              [] f = "percent_change" -> GraderPercentChange(v1, v2)])

test_time_comparison_case(c, t) ==
    IF "Date" \notin t.columns \/ ~Has(c, "metric_column")
    THEN Raised
    ELSE IF Has(c, "time_period_1") /\ IsDict(c.time_period_1)
    THEN IF ~(Has(c, "time_period_2") /\ IsDict(c.time_period_2)
              /\ Has(c, "expected_result")
              /\ {"start", "end"} \subseteq DOMAIN c.time_period_1.v
              /\ {"start", "end"} \subseteq DOMAIN c.time_period_2.v
              /\ c.metric_column \in t.columns)
         THEN Raised
         ELSE Returned(compare_results(TimeActual(c, t), c.expected_result, WideTolerance),
                       TimeActual(c, t))
    ELSE Returned(FALSE, NoneV)

\* ------------------------------------------------ generate_custom_metrics_evals
\* custom_metrics: the name and the required columns of each metric
MetricNames ==
    {"ROI", "Conversion Rate", "Cost Per Conversion", "Revenue Per Session", "Profit Margin"}
MetricColumns(name) ==
    CASE name = "ROI" -> {"Total Revenue", "Total Cost"}
      [] name = "Conversion Rate" -> {"Conversions", "Clicks"}
      [] name = "Cost Per Conversion" -> {"Total Cost", "Conversions"}
      [] name = "Revenue Per Session" -> {"Total Revenue", "Sessions"}
      [] name = "Profit Margin" -> {"Total Revenue", "Total Cost"}

\* the column whose zero rows the metric's branch drops
Denominator(name) ==
    CASE name = "ROI" -> "Total Cost"
      [] name = "Conversion Rate" -> "Clicks"
      [] name = "Cost Per Conversion" -> "Conversions"
      [] name = "Revenue Per Session" -> "Sessions"
      [] name = "Profit Margin" -> "Total Revenue"

\* the derived cell of one row, in quanta
MetricOfRow(name, r) ==
    CASE name = "ROI" ->
            FDivMul100(r["Total Revenue"] - r["Total Cost"], r["Total Cost"])
      [] name = "Conversion Rate" -> FDivMul100(r["Conversions"], r["Clicks"])
      [] name = "Cost Per Conversion" -> FDiv(r["Total Cost"], r["Conversions"])
      [] name = "Revenue Per Session" -> FDiv(r["Total Revenue"], r["Sessions"])
      [] name = "Profit Margin" ->
            FDivMul100(r["Total Revenue"] - r["Total Cost"], r["Total Revenue"])

\* df.dropna(subset=required_cols)
Dropna(rows, required_cols) ==
    SelectSeq(rows, LAMBDA r : \A c \in required_cols : r[c] # Missing)

\* faulty variant: a zero in any required column drops the row
CleanRowsAnyZero(rows, name, required_cols) ==
    SelectSeq(Dropna(rows, required_cols), LAMBDA r : \A c \in required_cols : r[c] # 0)

\* df_clean of a metric's branch: the complete rows with a non-zero denominator
CleanRows(rows, name, required_cols) ==
    SelectSeq(Dropna(rows, required_cols), LAMBDA r : r[Denominator(name)] # 0)

\* df_clean['custom_metric']
MetricColumn(rows, name) == [i \in 1..Len(rows) |-> MetricOfRow(name, rows[i])]

RECURSIVE InsertInt(_, _)
InsertInt(sorted, x) ==
    IF sorted = <<>> THEN <<x>>
    ELSE IF Head(sorted) <= x THEN <<Head(sorted)>> \o InsertInt(Tail(sorted), x)
         ELSE <<x>> \o sorted
RECURSIVE SortInts(_)
SortInts(xs) ==
    IF xs = <<>> THEN <<>>
    ELSE InsertInt(SortInts(SubSeq(xs, 1, Len(xs) - 1)), xs[Len(xs)])

\* reductions of the derived column (it holds no NaN), as a float or NaN
DerivedMean(xs) == IF xs = <<>> THEN NaNV ELSE Num(DivRound(SeqSum(xs), Len(xs)))
DerivedSum(xs) == Num(SeqSum(xs))
DerivedMedian(xs) ==
    IF xs = <<>> THEN NaNV
    ELSE LET sorted == SortInts(xs)
             n == Len(xs)
         IN  IF n % 2 = 1 THEN Num(sorted[(n + 1) \div 2])
             ELSE Num(DivRound(sorted[n \div 2] + sorted[(n \div 2) + 1], 2))

CustomAggFunctions == {"mean", "sum", "median"}

\* the else branch of the generator takes every other name for the median
GenDerivedAgg(agg_func, xs) ==
    IF agg_func = "mean" THEN DerivedMean(xs)
    ELSE IF agg_func = "sum" THEN DerivedSum(xs)
    ELSE DerivedMedian(xs)

\* round(x, 2) of a float or of NaN
RoundValue(x) == IF x.k = "nan" THEN NaNV ELSE Num(Round2(x.v))

\* the draw is skipped: a required column is absent, or no row is left
CustomSkipped(t, name) ==
    \/ ~(MetricColumns(name) \subseteq t.columns)
    \/ CleanRows(t.rows, name, MetricColumns(name)) = <<>>

\* the case of one iteration of the first loop
CustomCase(t, name, agg_func) ==
    [id |-> "custom_metric_i",
     category |-> "custom_metrics",
     question |-> "q",
     metric_name |-> name,
     aggregation_function |-> agg_func,
     required_columns |-> MetricColumns(name),
     expected_result |->
        NotnaFloat(RoundValue(GenDerivedAgg(agg_func,
            MetricColumn(CleanRows(t.rows, name, MetricColumns(name)), name))))]

\* df_clean.groupby(group_col)['custom_metric'].mean().to_dict(), rounded
GroupedDerivedMean(rows, name, group_col) ==
    Dict([key \in GroupKeys(rows, group_col) |->
            NotnaFloat(RoundValue(DerivedMean(
                MetricColumn(GroupRows(rows, group_col, key), name))))])

\* the case of one iteration of the second loop
CustomGroupedCase(t, name, group_col) ==
    [id |-> "custom_metric_grouped_i",
     category |-> "custom_metrics_grouped",
     question |-> "q",
     metric_name |-> name,
     group_by_column |-> group_col,
     aggregation_function |-> "mean",
     required_columns |-> MetricColumns(name),
     expected_result |->
        GroupedDerivedMean(CleanRows(t.rows, name, MetricColumns(name)), name, group_col)]

\* -------------------------------------------------- test_custom_metrics_case
\* faulty variant: the grader does not round its aggregate
CustomActualUnrounded(rows, name, agg_func) ==
    IF agg_func = "mean" THEN DerivedMean(MetricColumn(rows, name))
    ELSE IF agg_func = "sum" THEN DerivedSum(MetricColumn(rows, name))
    ELSE DerivedMedian(MetricColumn(rows, name))

\* float(round(df_clean['custom_metric'].mean(), 2)), .sum(), .median()
CustomActual(rows, name, agg_func) ==
    IF agg_func = "mean" THEN RoundValue(DerivedMean(MetricColumn(rows, name)))
    ELSE IF agg_func = "sum" THEN RoundValue(DerivedSum(MetricColumn(rows, name)))
    ELSE RoundValue(DerivedMedian(MetricColumn(rows, name)))

test_custom_metrics_case(c, t) ==
    IF ~(Has(c, "metric_name") /\ Has(c, "required_columns")
         /\ Has(c, "aggregation_function") /\ Has(c, "expected_result"))
    THEN Raised
    ELSE IF ~(c.required_columns \subseteq t.columns)
    THEN Raised
    ELSE IF c.metric_name \notin MetricNames
    THEN Raised
    ELSE IF ~(MetricColumns(c.metric_name) \subseteq t.columns)
    THEN Raised
    ELSE LET df_clean == CleanRows(t.rows, c.metric_name, c.required_columns)
         IN  IF Has(c, "group_by_column")
             THEN IF c.group_by_column \notin t.columns
                  THEN Raised
                  ELSE Returned(
                         compare_results(
                            GroupedDerivedMean(df_clean, c.metric_name, c.group_by_column),
                            c.expected_result, WideTolerance),
                         GroupedDerivedMean(df_clean, c.metric_name, c.group_by_column))
             ELSE IF c.aggregation_function \notin CustomAggFunctions
                  THEN Raised
                  ELSE Returned(
                         compare_results(
                            CustomActual(df_clean, c.metric_name, c.aggregation_function),
                            c.expected_result, WideTolerance),
                         CustomActual(df_clean, c.metric_name, c.aggregation_function))

\* ------------------------------------------------------------ run_evaluation
\* `sub in text` of two Python strings: sub is a slice of text
Contains(text, sub) ==
    \E i \in 1..(Len(text) - Len(sub) + 1) : SubSeq(text, i, i + Len(sub) - 1) = sub

\* the block of eval_dataset_all.json that generate_all_evals puts a case in
BlockOf(c) ==
    CASE Contains(c.category, "data_aggregation") -> "data_aggregation"
      [] Contains(c.category, "time_period_comparison") -> "time_period_comparison"
      [] OTHER -> "custom_metrics"

\* the dispatch of the nested loop, on the block's name
DispatchNested(category, c, t) ==
    IF Contains(category, "data_aggregation") THEN test_aggregation_case(c, t)
    ELSE IF Contains(category, "time_period_comparison") THEN test_time_comparison_case(c, t)
    ELSE IF Contains(category, "custom_metrics") THEN test_custom_metrics_case(c, t)
    ELSE Returned(FALSE, NoneV)

\* faulty variant: a category no branch takes is let through as passed
DispatchFlatLenient(c, t) ==
    IF ~Has(c, "category") THEN Raised
    ELSE IF Contains(c.category, "aggregation") THEN test_aggregation_case(c, t)
    ELSE IF Contains(c.category, "time") \/ Contains(c.category, "comparison")
         THEN test_time_comparison_case(c, t)
    ELSE IF Contains(c.category, "custom") \/ Contains(c.category, "metric")
         THEN test_custom_metrics_case(c, t)
    ELSE Returned(TRUE, NoneV)

\* the dispatch of the flat loop, on the case's own category
DispatchFlat(c, t) ==
    IF ~Has(c, "category") THEN Raised
    ELSE IF Contains(c.category, "aggregation") THEN test_aggregation_case(c, t)
    ELSE IF Contains(c.category, "time") \/ Contains(c.category, "comparison")
         THEN test_time_comparison_case(c, t)
    ELSE IF Contains(c.category, "custom") \/ Contains(c.category, "metric")
         THEN test_custom_metrics_case(c, t)
    ELSE Returned(FALSE, NoneV)

\* the engine the nested loop calls for a block name
EngineNested(category) ==
    IF Contains(category, "data_aggregation") THEN "test_aggregation_case"
    ELSE IF Contains(category, "time_period_comparison") THEN "test_time_comparison_case"
    ELSE IF Contains(category, "custom_metrics") THEN "test_custom_metrics_case"
    ELSE "none"

\* faulty variant: the flat loop compares the category with the block names
EngineFlatExact(category) ==
    IF category = "data_aggregation" THEN "test_aggregation_case"
    ELSE IF category = "time_period_comparison" THEN "test_time_comparison_case"
    ELSE IF category = "custom_metrics" THEN "test_custom_metrics_case"
    ELSE "none"

\* the engine the flat loop calls for a case's category
EngineFlat(category) ==
    IF Contains(category, "aggregation") THEN "test_aggregation_case"
    ELSE IF Contains(category, "time") \/ Contains(category, "comparison")
         THEN "test_time_comparison_case"
    ELSE IF Contains(category, "custom") \/ Contains(category, "metric")
         THEN "test_custom_metrics_case"
    ELSE "none"

\* the dispatch calls test_time_comparison_case
TimeDispatchedNested(category) ==
    ~Contains(category, "data_aggregation") /\ Contains(category, "time_period_comparison")
TimeDispatchedFlat(c) ==
    /\ Has(c, "category")
    /\ ~Contains(c.category, "aggregation")
    /\ Contains(c.category, "time") \/ Contains(c.category, "comparison")

\* df['Date'] = pd.to_datetime(df['Date']) on the table shared by all cases: the
\* dtype of the Date column after the call
to_datetime(dtype, called, t) ==
    IF called /\ "Date" \in t.columns THEN "datetime64" ELSE dtype

\* what the loop body counts the case as
Outcome(r) == IF r.raised THEN "error" ELSE IF r.passed THEN "passed" ELSE "failed"

\* --------------------------------------------------- the comparator's inputs
Keys == {"k1", "k2"}
Scalars == {NoneV, NaNV, Str("a")} \cup {Num(n) : n \in 0..MaxNum}
\* dicts of scalars
Maps1 == {Dict(f) : f \in UNION {[K -> Scalars] : K \in SUBSET Keys}}
\* dicts nested one level deeper under the key "k1"
Maps2 ==
    {Dict(f) : f \in UNION {
        {g \in [K -> Scalars \cup Maps1] : \A key \in K \ {"k1"} : g[key] \in Scalars}
        : K \in SUBSET Keys}}
Values == Scalars \cup Maps2
Tolerances == {-1, 0, 1, Pow2(MantBits)}
\* floats around the magnitude where the spacing of the floats becomes 2
BoundaryNums ==
    {0, 1, 2, Pow2(MantBits) - 1, Pow2(MantBits), Pow2(MantBits) + 2, -Pow2(MantBits)}

\* ---------------------------------------------------------- the tables read
\* the largest number of rows of a table
MaxRows == 2
\* the largest number of rows of a table of the dated family
MaxTimeRows == 3

RowsOver(U, n) == UNION {[1..k -> U] : k \in 1..n}

\* two categorical columns and a metric with missing cells, one date
AggTables ==
    {[columns |-> {"Date", "Region", "Channel", "Total Revenue"}, rows |-> rs] :
        rs \in RowsOver(
            {("Date" :> 0) @@ ("Region" :> g) @@ ("Channel" :> h) @@ ("Total Revenue" :> m) :
                g \in {"a", "b", MissingStr}, h \in {"x", "y"}, m \in {Missing, 1, 2}},
            MaxRows)}

\* revenue and cost, with zero and missing cells, one date
CostTables ==
    {[columns |-> {"Date", "Region", "Total Revenue", "Total Cost"}, rows |-> rs] :
        rs \in RowsOver(
            {("Date" :> 0) @@ ("Region" :> g) @@ ("Total Revenue" :> m) @@ ("Total Cost" :> c) :
                g \in {"a", "b"}, m \in {0, 1}, c \in {Missing, 0, 3}},
            MaxRows)}

\* the columns of the conversion metrics, no categorical column
ConversionTables ==
    {[columns |-> {"Date", "Total Revenue", "Conversions", "Clicks", "Sessions"},
      rows |-> rs] :
        rs \in RowsOver(
            {("Date" :> 0) @@ ("Total Revenue" :> 1) @@ ("Conversions" :> v)
                @@ ("Clicks" :> k) @@ ("Sessions" :> k) :
                v \in {Missing, 0, 2}, k \in {0, 3}},
            MaxRows)}

\* dated rows with one metric, no categorical column
DatedTables ==
    {[columns |-> {"Date", "Total Revenue"}, rows |-> rs] :
        rs \in RowsOver(
            {("Date" :> d) @@ ("Total Revenue" :> m) : d \in Days, m \in {0, 1, 3}},
            MaxTimeRows)}

\* dated rows with a categorical column and a metric with missing cells
DatedGroupTables ==
    {[columns |-> {"Date", "Region", "Total Revenue"}, rows |-> rs] :
        rs \in RowsOver(
            {("Date" :> d) @@ ("Region" :> g) @@ ("Total Revenue" :> m) :
                d \in Days \ {1}, g \in {"a", "b"}, m \in {Missing, 1, 3}},
            MaxRows)}

\* two rows whose categorical values hold the separator of the pair keys
UnderscoreTables ==
    {[columns |-> {"Date", "Region", "Channel", "Total Revenue"}, rows |-> rs] :
        rs \in [1..2 ->
            {("Date" :> 0) @@ ("Region" :> g) @@ ("Channel" :> h) @@ ("Total Revenue" :> m) :
                g \in {"a", "a_b"}, h \in {"b_c", "c"}, m \in {1, 2}}]}

Tables == AggTables \cup CostTables \cup ConversionTables \cup DatedTables
            \cup DatedGroupTables \cup UnderscoreTables

NoCase == [id |-> "none"]

VARIABLES op, actual, expected, tolerance, ret, etd,
          self_df, df, pc, case, outcome, graded, date_dtype,
          layout, block, total, passed, failed, counted, run,
          args, gen, num_cases, iter, emitted,
          cols, attempt, model, response, tried, model_calls, slept, rpc, function_code

cmpVars == <<op, actual, expected, tolerance, ret, etd>>
engineVars == <<self_df, df, pc, case, outcome, graded, date_dtype>>
\* run_evaluation: the corpus layout, the block's name, len(cases), the counters,
\* what each processed case added to them and printed, and the loop's position
runVars == <<layout, block, total, passed, failed, counted, run>>
\* the generator's loops: the parsed command line, the loop that runs, its
\* num_cases, its index and the number of cases appended per category
genVars == <<args, gen, num_cases, iter, emitted>>
\* generate_row_function: the columns, the attempt, the next model, the last
\* response, what this attempt printed per model, the number of model calls, the
\* attempts followed by a sleep, the position and the returned code
rowVars == <<cols, attempt, model, response, tried, model_calls, slept, rpc, function_code>>
vars == <<op, actual, expected, tolerance, ret, etd,
          self_df, df, pc, case, outcome, graded, date_dtype,
          layout, block, total, passed, failed, counted, run,
          args, gen, num_cases, iter, emitted,
          cols, attempt, model, response, tried, model_calls, slept, rpc, function_code>>

\* the comparator at rest
CmpIdle ==
    /\ op = "none"
    /\ actual = NoneV
    /\ expected = NoneV
    /\ tolerance = 0
    /\ ret = FALSE
    /\ etd = <<0, 0, 0>>

\* no table read
EngineIdle ==
    /\ self_df = [columns |-> {}, rows |-> <<>>]
    /\ df = [columns |-> {}, rows |-> <<>>]
    /\ pc = "idle"
    /\ case = NoCase
    /\ outcome = "none"
    /\ graded = NoneV
    /\ date_dtype = "object"

\* run_evaluation not called
RunIdle ==
    /\ layout = "none"
    /\ block = "none"
    /\ total = 0
    /\ passed = 0
    /\ failed = 0
    /\ counted = <<>>
    /\ run = "idle"

\* no generator loop runs
NoArgs == [agg_cases |-> 0, time_cases |-> 0, custom_cases |-> 0]
NoneEmitted ==
    [c \in {"data_aggregation", "data_aggregation_multi_group",
            "time_period_comparison", "time_period_comparison_grouped",
            "custom_metrics", "custom_metrics_grouped"} |-> 0]
GenIdle ==
    /\ args = NoArgs
    /\ gen = "idle"
    /\ num_cases = 0
    /\ iter = 0
    /\ emitted = NoneEmitted

\* generate_row_function not called
NoResponse == [kind |-> "None", raw |-> 0, code |-> 0, python |-> FALSE]
RowIdle ==
    /\ cols = <<>>
    /\ attempt = 0
    /\ model = 0
    /\ response = NoResponse
    /\ tried = <<>>
    /\ model_calls = 0
    /\ slept = <<>>
    /\ rpc = "idle"
    /\ function_code = NoneV

InitCmp == CmpIdle /\ EngineIdle /\ RunIdle /\ GenIdle /\ RowIdle

\* one call compare_results(a, e, t)
Call ==
    /\ op = "none"
    /\ \E a \in Values, e \in Values, t \in Tolerances :
        /\ op' = "call"
        /\ actual' = a
        /\ expected' = e
        /\ tolerance' = t
        /\ ret' = compare_results(a, e, t)
        /\ etd' = <<0, 0, 0>>
        /\ UNCHANGED <<engineVars, runVars, genVars, rowVars>>

\* one call compare_results(e + t + d, e, t) on floats, d >= 0
CallBoundary ==
    /\ op = "none"
    /\ \E e \in BoundaryNums, t \in BoundaryNums, d \in BoundaryNums :
        /\ t >= 0
        /\ d >= 0
        /\ op' = "boundary"
        /\ actual' = Num(FAdd(FAdd(e, t), d))
        /\ expected' = Num(e)
        /\ tolerance' = t
        /\ ret' = compare_results(Num(FAdd(FAdd(e, t), d)), Num(e), t)
        /\ etd' = <<e, t, d>>
        /\ UNCHANGED <<engineVars, runVars, genVars, rowVars>>

NextCmp == Call \/ CallBoundary

SpecCmp == InitCmp /\ [][NextCmp]_vars

\* ---------------------------------------------- the generator and the grader
\* EvalDatasetGenerator(csv) and pd.read_csv(csv) of run_evaluation: one table
Init ==
    /\ CmpIdle
    /\ RunIdle
    /\ GenIdle
    /\ RowIdle
    /\ \E t \in Tables :
        /\ self_df = t
        /\ df = t
    /\ pc = "loaded"
    /\ case = NoCase
    /\ outcome = "none"
    /\ graded = NoneV
    /\ date_dtype = "object"

\* the generator stops on an exception
Raise ==
    /\ pc' = "raised"
    /\ case' = NoCase

\* one iteration of the first loop of generate_aggregation_evals
GenerateAggregation ==
    /\ pc = "loaded"
    /\ IF categorical_columns(self_df) = {} \/ numeric_columns(self_df) = {}
       THEN Raise
       ELSE \E group_col \in categorical_columns(self_df),
               metric_col \in numeric_columns(self_df),
               agg_func \in AggFunctions :
                /\ case' = AggCase(self_df, group_col, metric_col, agg_func)
                /\ pc' = "generated"
    /\ UNCHANGED <<self_df, df, outcome, graded, date_dtype>>
    /\ UNCHANGED <<cmpVars, runVars, genVars, rowVars>>

\* one iteration of the second loop of generate_aggregation_evals
GenerateAggregationMulti ==
    /\ pc = "loaded"
    /\ IF Cardinality(categorical_columns(self_df)) < 2 \/ numeric_columns(self_df) = {}
       THEN Raise
       ELSE \E g1 \in categorical_columns(self_df),
               g2 \in categorical_columns(self_df),
               metric_col \in numeric_columns(self_df),
               agg_func \in AggMultiFunctions :
                /\ g1 # g2
                /\ case' = AggMultiCase(self_df, <<g1, g2>>, metric_col, agg_func)
                /\ pc' = "generated"
    /\ UNCHANGED <<self_df, df, outcome, graded, date_dtype>>
    /\ UNCHANGED <<cmpVars, runVars, genVars, rowVars>>

\* generate_time_comparison_evals up to one iteration of its first loop
GenerateTimeComparison ==
    /\ pc = "loaded"
    /\ self_df' = sort_values(self_df)
    /\ IF numeric_columns(self_df) = {} \/ TimeGenRaises(SortByDate(self_df.rows))
       THEN Raise
       ELSE \E metric_col \in numeric_columns(self_df) :
                /\ case' = TimeCase(SortByDate(self_df.rows), metric_col)
                /\ pc' = "generated"
    /\ UNCHANGED <<df, outcome, graded, date_dtype>>
    /\ UNCHANGED <<cmpVars, runVars, genVars, rowVars>>

\* generate_time_comparison_evals up to one iteration of its second loop
GenerateTimeComparisonGrouped ==
    /\ pc = "loaded"
    /\ self_df' = sort_values(self_df)
    /\ IF \/ numeric_columns(self_df) = {}
          \/ categorical_columns(self_df) = {}
          \/ TimeGenRaises(SortByDate(self_df.rows))
       THEN Raise
       ELSE \E metric_col \in numeric_columns(self_df),
               group_col \in categorical_columns(self_df) :
                /\ case' = TimeGroupedCase(SortByDate(self_df.rows), metric_col, group_col)
                /\ pc' = "generated"
    /\ UNCHANGED <<df, outcome, graded, date_dtype>>
    /\ UNCHANGED <<cmpVars, runVars, genVars, rowVars>>

\* one iteration of the first loop of generate_custom_metrics_evals
GenerateCustomMetric ==
    /\ pc = "loaded"
    /\ \E name \in MetricNames, agg_func \in CustomAggFunctions :
        IF CustomSkipped(self_df, name)
        THEN /\ pc' = "skipped"
             /\ case' = NoCase
        ELSE /\ case' = CustomCase(self_df, name, agg_func)
             /\ pc' = "generated"
    /\ UNCHANGED <<self_df, df, outcome, graded, date_dtype>>
    /\ UNCHANGED <<cmpVars, runVars, genVars, rowVars>>

\* one iteration of the second loop of generate_custom_metrics_evals
GenerateCustomMetricGrouped ==
    /\ pc = "loaded"
    /\ IF categorical_columns(self_df) = {}
       THEN Raise
       ELSE \E name \in MetricNames, group_col \in categorical_columns(self_df) :
                IF CustomSkipped(self_df, name)
                THEN /\ pc' = "skipped"
                     /\ case' = NoCase
                ELSE /\ case' = CustomGroupedCase(self_df, name, group_col)
                     /\ pc' = "generated"
    /\ UNCHANGED <<self_df, df, outcome, graded, date_dtype>>
    /\ UNCHANGED <<cmpVars, runVars, genVars, rowVars>>

\* the body of the loop over info['cases'] of run_evaluation, on the written case
GradeNested ==
    /\ pc = "generated"
    /\ pc' = "graded"
    /\ outcome' = Outcome(DispatchNested(BlockOf(case), case, df))
    /\ graded' = DispatchNested(BlockOf(case), case, df).actual
    /\ date_dtype' = to_datetime(date_dtype, TimeDispatchedNested(BlockOf(case)), df)
    /\ UNCHANGED <<self_df, df, case>>
    /\ UNCHANGED <<cmpVars, runVars, genVars, rowVars>>

\* the body of the loop over eval_data['cases'] of run_evaluation
GradeFlat ==
    /\ pc = "generated"
    /\ pc' = "graded"
    /\ outcome' = Outcome(DispatchFlat(case, df))
    /\ graded' = DispatchFlat(case, df).actual
    /\ date_dtype' = to_datetime(date_dtype, TimeDispatchedFlat(case), df)
    /\ UNCHANGED <<self_df, df, case>>
    /\ UNCHANGED <<cmpVars, runVars, genVars, rowVars>>

Next ==
    \/ GenerateAggregation
    \/ GenerateAggregationMulti
    \/ GenerateTimeComparison
    \/ GenerateTimeComparisonGrouped
    \/ GenerateCustomMetric
    \/ GenerateCustomMetricGrouped
    \/ GradeNested
    \/ GradeFlat

Spec == Init /\ [][Next]_vars

\* ------------------------------------------------ run_evaluation on a corpus
\* the largest number of cases of a corpus
MaxCases == 2

RunRow(d, g, h, m, c) ==
    ("Date" :> d) @@ ("Region" :> g) @@ ("Channel" :> h)
        @@ ("Total Revenue" :> m) @@ ("Total Cost" :> c)

\* the table the corpus was generated from: unsorted, one row with a zero cost
SourceTable ==
    [columns |-> {"Date", "Region", "Channel", "Total Revenue", "Total Cost"},
     rows |-> <<RunRow(2, "a", "x", 1, 3), RunRow(0, "b", "y", 3, 0)>>]

\* the data files of the runs: the source table, and one whose costs are all zero
RunTables ==
    {SourceTable,
     [columns |-> {"Date", "Region", "Channel", "Total Revenue", "Total Cost"},
      rows |-> <<RunRow(0, "a", "x", 2, 0), RunRow(3, "a", "y", Missing, 0)>>]}

\* cases the three generators write from a table: one draw of each loop, and the
\* three aggregates of one custom metric
GeneratedCases(t) ==
    {AggCase(t, "Region", "Total Revenue", "sum"),
     AggMultiCase(t, <<"Region", "Channel">>, "Total Revenue", "mean"),
     TimeCase(SortByDate(t.rows), "Total Revenue"),
     TimeGroupedCase(SortByDate(t.rows), "Total Revenue", "Region"),
     CustomGroupedCase(t, "ROI", "Region")}
    \cup {CustomCase(t, "ROI", fn) : fn \in CustomAggFunctions}

\* a case of the file without one of its fields
Without(c, field) == [f \in DOMAIN c \ {field} |-> c[f]]
DroppedFields == {"id", "question", "category", "metric_column", "expected_result"}

\* 0.05, between the two tolerances of the grader
Offset == 5 * SubCent

\* an expected value with every number moved by delta
RECURSIVE Shift(_, _)
Shift(x, delta) ==
    IF x.k = "num" THEN Num(x.v + delta)
    ELSE IF x.k = "dict" THEN Dict([key \in DOMAIN x.v |-> Shift(x.v[key], delta)])
    ELSE x

\* a generated case as it may stand in an edited file: unchanged, without a field,
\* with a category of another kind, or with shifted expected numbers
Edited(c) ==
    {c}
    \cup {Without(c, field) : field \in DroppedFields \cap DOMAIN c}
    \cup {[c EXCEPT !.category = "forecast"]}
    \cup {[c EXCEPT !.expected_result = Shift(@, Offset)]}

CorpusCases == UNION {Edited(c) : c \in GeneratedCases(SourceTable)}

\* the names of the blocks of a nested file
NestedBlocks == {"data_aggregation", "time_period_comparison", "custom_metrics", "forecast"}

\* the dispatch falls through to `result = False`
UnrecognizedNested(category) ==
    /\ ~Contains(category, "data_aggregation")
    /\ ~Contains(category, "time_period_comparison")
    /\ ~Contains(category, "custom_metrics")
UnrecognizedFlat(c) ==
    /\ Has(c, "category")
    /\ ~Contains(c.category, "aggregation")
    /\ ~(Contains(c.category, "time") \/ Contains(c.category, "comparison"))
    /\ ~(Contains(c.category, "custom") \/ Contains(c.category, "metric"))

\* except Exception: failed += 1, then the print of case['id'], which escapes the
\* loop when the case has no id
ExceptHandler(c, p, f, lines) ==
    [passed |-> p, failed |-> f + 1,
     lines |-> IF Has(c, "id") THEN lines \o <<"ERROR">> ELSE lines,
     abort |-> ~Has(c, "id")]

\* what one iteration over info['cases'] adds to the counters and prints
CountedNested(r, c) ==
    IF r.raised THEN ExceptHandler(c, 0, 0, <<>>)
    ELSE IF r.passed
    THEN IF Has(c, "id")
         THEN [passed |-> 1, failed |-> 0, lines |-> <<"PASSED">>, abort |-> FALSE]
         ELSE ExceptHandler(c, 1, 0, <<>>)
    ELSE IF ~Has(c, "id") THEN ExceptHandler(c, 0, 1, <<>>)
    ELSE IF ~Has(c, "question") THEN ExceptHandler(c, 0, 1, <<"FAILED">>)
    ELSE [passed |-> 0, failed |-> 1, lines |-> <<"FAILED">>, abort |-> FALSE]

\* what one iteration over eval_data['cases'] adds to the counters and prints
CountedFlat(r, c) ==
    IF r.raised THEN ExceptHandler(c, 0, 0, <<>>)
    ELSE IF r.passed
    THEN IF Has(c, "id")
         THEN [passed |-> 1, failed |-> 0, lines |-> <<"PASSED">>, abort |-> FALSE]
         ELSE ExceptHandler(c, 1, 0, <<>>)
    ELSE IF ~Has(c, "id") \/ ~Has(c, "question") THEN ExceptHandler(c, 0, 1, <<>>)
    ELSE [passed |-> 0, failed |-> 1, lines |-> <<"FAILED">>, abort |-> FALSE]

\* why result was False: no branch of the dispatch took the case, or
\* compare_results rejected a recomputed value
KindOf(unrecognized, r) ==
    IF unrecognized THEN "unrecognized"
    ELSE IF ~r.raised /\ ~r.passed /\ r.actual # NoneV THEN "mismatch"
    ELSE "other"

\* run_evaluation(eval_file, data_file) up to its loop
InitRun ==
    /\ CmpIdle
    /\ GenIdle
    /\ RowIdle
    /\ self_df = [columns |-> {}, rows |-> <<>>]
    /\ pc = "idle"
    /\ case = NoCase
    /\ outcome = "none"
    /\ graded = NoneV
    /\ date_dtype = "object"
    /\ df \in RunTables
    /\ \/ layout = "nested" /\ block \in NestedBlocks
       \/ layout = "flat" /\ block = "none"
    /\ total \in 0..MaxCases
    /\ passed = 0
    /\ failed = 0
    /\ counted = <<>>
    /\ run = "running"

\* one iteration of `for case in info['cases']`
GradeNestedCase ==
    /\ run = "running"
    /\ layout = "nested"
    /\ Len(counted) < total
    /\ \E c \in CorpusCases :
        \E r \in {DispatchNested(block, c, df)} : \E k \in {CountedNested(r, c)} :
            /\ case' = c
            /\ outcome' = Outcome(r)
            /\ graded' = r.actual
            /\ date_dtype' = to_datetime(date_dtype, TimeDispatchedNested(block), df)
            /\ passed' = passed + k.passed
            /\ failed' = failed + k.failed
            /\ counted' = Append(counted,
                    [passed |-> k.passed, failed |-> k.failed, lines |-> k.lines,
                     kind |-> KindOf(UnrecognizedNested(block), r)])
            /\ run' = IF k.abort THEN "aborted" ELSE "running"
    /\ UNCHANGED <<self_df, df, pc, layout, block, total>>
    /\ UNCHANGED <<cmpVars, genVars, rowVars>>

\* one iteration of `for case in cases`
GradeFlatCase ==
    /\ run = "running"
    /\ layout = "flat"
    /\ Len(counted) < total
    /\ \E c \in CorpusCases :
        \E r \in {DispatchFlat(c, df)} : \E k \in {CountedFlat(r, c)} :
            /\ case' = c
            /\ outcome' = Outcome(r)
            /\ graded' = r.actual
            /\ date_dtype' = to_datetime(date_dtype, TimeDispatchedFlat(c), df)
            /\ passed' = passed + k.passed
            /\ failed' = failed + k.failed
            /\ counted' = Append(counted,
                    [passed |-> k.passed, failed |-> k.failed, lines |-> k.lines,
                     kind |-> KindOf(UnrecognizedFlat(c), r)])
            /\ run' = IF k.abort THEN "aborted" ELSE "running"
    /\ UNCHANGED <<self_df, df, pc, layout, block, total>>
    /\ UNCHANGED <<cmpVars, genVars, rowVars>>

\* the loop is over: the results and the accuracy are printed
Summary ==
    /\ run = "running"
    /\ Len(counted) = total
    /\ run' = "done"
    /\ UNCHANGED <<self_df, df, pc, case, outcome, graded, date_dtype>>
    /\ UNCHANGED <<layout, block, total, passed, failed, counted>>
    /\ UNCHANGED <<cmpVars, genVars, rowVars>>

NextRun == GradeNestedCase \/ GradeFlatCase \/ Summary

SpecRun == InitRun /\ [][NextRun]_vars

\* ------------------------------------- the generator's loops and its main()
\* the largest case count given on the command line or to a direct call
MaxCount == 2

\* num_cases of the three generators when the caller gives none
DefaultAggCases == 20
DefaultTimeCases == 15
DefaultCustomCases == 15
\* range(5) of the second loop of every generator
GroupedCases == 5

\* --agg-cases, --time-cases, --custom-cases as parse_args returns them
ParsedArgs ==
    [agg_cases : 1..MaxCount, time_cases : 1..MaxCount, custom_cases : 1..MaxCount]

\* the data files of the generator runs: the run tables, one-row tables with one
\* categorical column or none, and one-row tables with the columns of no metric
LoopTables ==
    RunTables
        \cup {t \in CostTables \cup ConversionTables : Len(t.rows) = 1}
        \cup {t \in AggTables : /\ Len(t.rows) = 1
                                /\ t.rows[1]["Region"] = "a"
                                /\ t.rows[1]["Total Revenue"] = 1}

\* the loops, in the order generate_all_evals runs them
Loops ==
    <<"data_aggregation", "data_aggregation_multi_group",
      "time_period_comparison", "time_period_comparison_grouped",
      "custom_metrics", "custom_metrics_grouped">>

\* range(num_cases) of a first loop, range(5) of a second loop
LoopBound(g) ==
    IF g \in {"data_aggregation", "time_period_comparison", "custom_metrics"}
    THEN num_cases ELSE GroupedCases

\* eval_cases.append(eval_case)
Append1(c) ==
    /\ case' = c
    /\ emitted' = [emitted EXCEPT ![c.category] = @ + 1]
    /\ iter' = iter + 1
    /\ UNCHANGED gen

\* an exception leaves the generator and generate_all_evals
RaiseOut ==
    /\ gen' = "raised"
    /\ UNCHANGED <<case, emitted, iter>>

\* faulty variant: a draw with an absent column writes a case without a value
CustomDrawnDefault(t, name, agg_func) ==
    IF ~(MetricColumns(name) \subseteq t.columns)
    THEN [id |-> "custom_metric_i", category |-> "custom_metrics", question |-> "q",
          metric_name |-> name, aggregation_function |-> agg_func,
          required_columns |-> MetricColumns(name), expected_result |-> NoneV]
    ELSE IF CustomSkipped(t, name) THEN NoCase
    ELSE CustomCase(t, name, agg_func)

\* what one draw of the first custom loop appends: nothing (continue) or a case
CustomDrawn(t, name, agg_func) ==
    IF CustomSkipped(t, name) THEN NoCase ELSE CustomCase(t, name, agg_func)

\* what one draw of the second custom loop appends
CustomGroupedDrawn(t, name, group_col) ==
    IF CustomSkipped(t, name) THEN NoCase ELSE CustomGroupedCase(t, name, group_col)

\* continue, or append
SkipOrAppend(c) ==
    IF c = NoCase
    THEN /\ iter' = iter + 1
         /\ UNCHANGED <<case, emitted, gen>>
    ELSE Append1(c)

\* EvalDatasetGenerator(csv): one table, no loop started
InitGen ==
    /\ CmpIdle
    /\ RunIdle
    /\ RowIdle
    /\ self_df \in LoopTables
    /\ df = [columns |-> {}, rows |-> <<>>]
    /\ pc = "idle"
    /\ case = NoCase
    /\ outcome = "none"
    /\ graded = NoneV
    /\ date_dtype = "object"
    /\ args = NoArgs
    /\ gen = "start"
    /\ num_cases = 0
    /\ iter = 0
    /\ emitted = NoneEmitted

\* main(): parse_args, then generate_all_evals(output_dir), which calls
\* generate_aggregation_evals() without an argument
Main ==
    /\ gen = "start"
    /\ args' \in ParsedArgs
    /\ gen' = "data_aggregation"
    /\ num_cases' = DefaultAggCases
    /\ UNCHANGED <<iter, emitted, case, self_df>>
    /\ UNCHANGED <<df, pc, outcome, graded, date_dtype>>
    /\ UNCHANGED <<cmpVars, runVars, rowVars>>

\* a direct call generate_custom_metrics_evals(num_cases)
CallCustomMetrics ==
    /\ gen = "start"
    /\ num_cases' \in 0..MaxCount
    /\ gen' = "custom_metrics"
    /\ UNCHANGED <<args, iter, emitted, case, self_df>>
    /\ UNCHANGED <<df, pc, outcome, graded, date_dtype>>
    /\ UNCHANGED <<cmpVars, runVars, rowVars>>

\* one iteration of the loop that runs
Draw ==
    /\ gen \in {Loops[k] : k \in 1..Len(Loops)}
    /\ iter < LoopBound(gen)
    /\ CASE gen = "data_aggregation" ->
              IF categorical_columns(self_df) = {} \/ numeric_columns(self_df) = {}
              THEN RaiseOut
              ELSE \E group_col \in categorical_columns(self_df),
                      metric_col \in numeric_columns(self_df),
                      agg_func \in AggFunctions :
                        Append1(AggCase(self_df, group_col, metric_col, agg_func))
         [] gen = "data_aggregation_multi_group" ->
              IF Cardinality(categorical_columns(self_df)) < 2
                    \/ numeric_columns(self_df) = {}
              THEN RaiseOut
              ELSE \E g1 \in categorical_columns(self_df),
                      g2 \in categorical_columns(self_df),
                      metric_col \in numeric_columns(self_df),
                      agg_func \in AggMultiFunctions :
                        /\ g1 # g2
                        /\ Append1(AggMultiCase(self_df, <<g1, g2>>, metric_col, agg_func))
         [] gen = "time_period_comparison" ->
              IF numeric_columns(self_df) = {} \/ TimeGenRaises(self_df.rows)
              THEN RaiseOut
              ELSE \E metric_col \in numeric_columns(self_df) :
                        Append1(TimeCase(self_df.rows, metric_col))
         [] gen = "time_period_comparison_grouped" ->
              IF \/ numeric_columns(self_df) = {}
                 \/ categorical_columns(self_df) = {}
                 \/ TimeGenRaises(self_df.rows)
              THEN RaiseOut
              ELSE \E metric_col \in numeric_columns(self_df),
                      group_col \in categorical_columns(self_df) :
                        Append1(TimeGroupedCase(self_df.rows, metric_col, group_col))
         [] gen = "custom_metrics" ->
              \E name \in MetricNames, agg_func \in CustomAggFunctions :
                  SkipOrAppend(CustomDrawn(self_df, name, agg_func))
         [] gen = "custom_metrics_grouped" ->
              IF categorical_columns(self_df) = {}
              THEN RaiseOut
              ELSE \E name \in MetricNames, group_col \in categorical_columns(self_df) :
                        SkipOrAppend(CustomGroupedDrawn(self_df, name, group_col))
    /\ UNCHANGED <<args, num_cases, self_df>>
    /\ UNCHANGED <<df, pc, outcome, graded, date_dtype>>
    /\ UNCHANGED <<cmpVars, runVars, rowVars>>

\* the loop that runs is exhausted: the generator's second loop starts, or the
\* generator returns and generate_all_evals calls the next one without an
\* argument (generate_time_comparison_evals first sorts the table), or the last
\* generator returns
LoopExit ==
    /\ gen \in {Loops[k] : k \in 1..Len(Loops)}
    /\ iter = LoopBound(gen)
    /\ iter' = 0
    /\ CASE gen = "data_aggregation" ->
              /\ gen' = "data_aggregation_multi_group"
              /\ UNCHANGED <<num_cases, self_df>>
         [] gen = "data_aggregation_multi_group" ->
              /\ gen' = "time_period_comparison"
              /\ num_cases' = DefaultTimeCases
              /\ self_df' = sort_values(self_df)
         [] gen = "time_period_comparison" ->
              /\ gen' = "time_period_comparison_grouped"
              /\ UNCHANGED <<num_cases, self_df>>
         [] gen = "time_period_comparison_grouped" ->
              /\ gen' = "custom_metrics"
              /\ num_cases' = DefaultCustomCases
              /\ UNCHANGED self_df
         [] gen = "custom_metrics" ->
              /\ gen' = "custom_metrics_grouped"
              /\ UNCHANGED <<num_cases, self_df>>
         [] gen = "custom_metrics_grouped" ->
              /\ gen' = "returned"
              /\ UNCHANGED <<num_cases, self_df>>
    /\ UNCHANGED <<args, emitted, case>>
    /\ UNCHANGED <<df, pc, outcome, graded, date_dtype>>
    /\ UNCHANGED <<cmpVars, runVars, rowVars>>

NextGen ==
    \/ Main
    \/ CallCustomMetrics
    \/ Draw
    \/ LoopExit

SpecGen == InitGen /\ [][NextGen]_vars

\* ------------------------------------------------ generate_row_function
\* max_retries
max_retries == 3
\* models_to_try, best first
models_to_try ==
    <<"gemini-2.5-pro", "gemini-2.5-flash", "gemini-2.0-flash-001", "gemini-flash-latest">>
\* _extract_code: `len(code) > 10`
MinExtracted == 10
\* generate_row_function: `len(code.strip()) > 50`
MinAccepted == 50

\* str.lower() on the letters of the column names
UpperLetters == "ABCDEFGHIJKLMNOPQRSTUVWXYZ"
LowerLetters == "abcdefghijklmnopqrstuvwxyz"
LowerChar(c) ==
    IF \E k \in 1..Len(UpperLetters) : SubSeq(UpperLetters, k, k) = c
    THEN LET k == CHOOSE k \in 1..Len(UpperLetters) : SubSeq(UpperLetters, k, k) = c
         IN  SubSeq(LowerLetters, k, k)
    ELSE c
RECURSIVE LowerFrom(_, _)
LowerFrom(text, k) ==
    IF k > Len(text) THEN ""
    ELSE LowerChar(SubSeq(text, k, k)) \o LowerFrom(text, k + 1)
lower(text) == LowerFrom(text, 1)

\* any(word in col_lower for word in [...])
AnyWord(col_lower, words) == \E word \in words : Contains(col_lower, word)

\* the expression the fallback writes for a column, by the first list of words
\* one of which the given name holds
ExprByWords(col_lower) ==
    IF AnyWord(col_lower, {"id", "key", "index"})
    THEN "random.randint(1, 10000)"
    ELSE IF AnyWord(col_lower, {"date", "time", "created", "updated"})
    THEN "fake.date_between(start_date=\"-1y\", end_date=\"today\").strftime(\"%Y-%m-%d\")"
    ELSE IF AnyWord(col_lower, {"email", "mail"})
    THEN "fake.email()"
    ELSE IF AnyWord(col_lower, {"name", "title"})
    THEN "fake.name()"
    ELSE IF AnyWord(col_lower, {"amount", "price", "cost", "revenue", "value"})
    THEN "round(random.uniform(10, 1000), 2)"
    ELSE IF AnyWord(col_lower, {"count", "number", "quantity"})
    THEN "random.randint(1, 100)"
    ELSE IF AnyWord(col_lower, {"status", "type", "category"})
    THEN "random.choice([\"active\", \"inactive\", \"pending\", \"completed\"])"
    ELSE "fake.word()"

\* faulty variant: the words are looked for in the name as written
FallbackExprCaseSensitive(col) == ExprByWords(col)

\* the expression of a column: the words are looked for in col.lower()
FallbackExpr(col) == CHOOSE e \in {ExprByWords(col_lower) : col_lower \in {lower(col)}} : TRUE

\* _generate_fallback_function(columns): the dict literal of generate_row(), one
\* entry per column, in the order of the columns
generate_fallback_function(columns) ==
    [source |-> "fallback",
     entries |-> [k \in 1..Len(columns) |-> <<columns[k], FallbackExpr(columns[k])>>]]

\* the largest num_columns given
MaxColumns == 2

\* analysis['columns'] of a sample file
SampleColumns ==
    <<"Campaign Name", "Bid Amount", "Campaign ID", "Date", "Email", "Total Cost",
      "Click Count", "Status", "Region", "Conversion Value", "Updated At", "Index">>

\* columns[:num_columns] when num_columns is given (not 0) and differs from the
\* number of columns
Truncate(columns, num_columns) ==
    IF num_columns # 0 /\ num_columns # Len(columns)
    THEN SubSeq(columns, 1, IF num_columns < Len(columns) THEN num_columns ELSE Len(columns))
    ELSE columns

\* what a call of generate_content can do: raise, return None, return a response
\* whose text is None, or a response with a text.  A text is given by its length
\* (raw), by the length of the code _extract_code finds in it (code) and by
\* whether that code is Python.
ModelBehaviours ==
    {[kind |-> k, raw |-> 0, code |-> 0, python |-> FALSE] :
        k \in {"raise", "None", "text_none"}}
      \cup {[kind |-> "text", raw |-> r, code |-> 0, python |-> FALSE] : r \in {0, 2}}
      \cup {[kind |-> "text", raw |-> c + 2, code |-> c, python |-> b] :
              c \in {MinExtracted, MinExtracted + 1, MinAccepted, MinAccepted + 1},
              b \in BOOLEAN}

\* `response and hasattr(response, 'text') and response.text`
HasText(r) == r.kind = "text" /\ r.raw > 0

\* what the model loop prints about a call: "responded successfully", "returned
\* empty response" or "failed"
Printed(r) ==
    IF r.kind = "raise" THEN "failed"
    ELSE IF HasText(r) THEN "responded successfully"
    ELSE "returned empty response"

\* faulty variant: the model loop goes on after a response with a text
BreaksNever(r) == FALSE

\* the model loop ends at this response
Breaks(r) == HasText(r)

\* _extract_code(response.text): the code, or ValueError when what it finds is
\* not longer than 10 characters
extract_code(r) ==
    IF r.code > MinExtracted THEN [raised |-> FALSE, code |-> r] ELSE [raised |-> TRUE, code |-> r]

\* lines 84-95 pass: the response has a text that is not blank, and the
\* extracted code is longer than 50 characters
Accepted(r) ==
    /\ r.kind = "text"
    /\ r.code > 0
    /\ ~extract_code(r).raised
    /\ extract_code(r).code.code > MinAccepted

\* faulty variant: the handler retries after every attempt
RetryAlways(a) == a < max_retries

\* `attempt < max_retries - 1` of the except handler
RetryAgain(a) == a < max_retries - 1

\* generate_row_function(analysis, num_columns) up to the first attempt
InitRow ==
    /\ CmpIdle
    /\ EngineIdle
    /\ RunIdle
    /\ GenIdle
    /\ cols \in {Truncate(SampleColumns, num_columns) : num_columns \in 0..MaxColumns}
    /\ attempt = 0
    /\ model = 1
    /\ response = NoResponse
    /\ tried = <<>>
    /\ model_calls = 0
    /\ slept = <<>>
    /\ rpc = "models"
    /\ function_code = NoneV

\* one iteration of `for model in models_to_try`
TryModel ==
    /\ rpc = "models"
    /\ model <= Len(models_to_try)
    /\ \E got \in ModelBehaviours :
        /\ model_calls' = model_calls + 1
        /\ tried' = Append(tried, [model |-> models_to_try[model], printed |-> Printed(got)])
        /\ response' = IF got.kind = "raise" THEN response ELSE got
        /\ IF got.kind # "raise" /\ Breaks(got)
           THEN /\ rpc' = "validate"
                /\ UNCHANGED model
           ELSE /\ model' = model + 1
                /\ rpc' = IF model = Len(models_to_try) THEN "validate" ELSE "models"
    /\ UNCHANGED <<cols, attempt, slept, function_code>>
    /\ UNCHANGED <<cmpVars, engineVars, runVars, genVars>>

\* the rest of the attempt: the checks of the response, the return of the code,
\* or the except handler, which sleeps and starts the next attempt (after the
\* last attempt of the loop the function raises) or returns the fallback code
Validate ==
    /\ rpc = "validate"
    /\ IF Accepted(response)
       THEN /\ function_code' = [source |-> "model", entries |-> <<response>>]
            /\ rpc' = "returned"
            /\ UNCHANGED <<attempt, model, response, tried, slept>>
       ELSE IF RetryAgain(attempt)
       THEN /\ slept' = Append(slept, attempt)
            /\ attempt' = attempt + 1
            /\ model' = 1
            /\ response' = NoResponse
            /\ tried' = <<>>
            /\ rpc' = IF attempt + 1 < max_retries THEN "models" ELSE "raised"
            /\ UNCHANGED function_code
       ELSE /\ function_code' = generate_fallback_function(cols)
            /\ rpc' = "returned"
            /\ UNCHANGED <<attempt, model, response, tried, slept>>
    /\ UNCHANGED <<cols, model_calls>>
    /\ UNCHANGED <<cmpVars, engineVars, runVars, genVars>>

NextRow ==
    \/ TryModel
    \/ Validate

\* the function runs on: a Python call that can take a step takes it
SpecRow == InitRow /\ [][NextRow]_vars /\ WF_vars(NextRow)

\* ------------------------------------------------------ comparator claims

\* C1: on two mappings compare_results is true iff the key sets are equal and
\* it holds recursively for every key; a mapping against a non-mapping is false.
C1_MappingCompare ==
    op = "call" =>
        /\ (IsDict(actual) /\ IsDict(expected)) =>
              (ret <=> /\ DOMAIN actual.v = DOMAIN expected.v
                       /\ \A key \in DOMAIN expected.v :
                             compare_results(actual.v[key], expected.v[key], tolerance))
        /\ (IsDict(actual) # IsDict(expected)) => ~ret

\* an extra key in actual, every shared key holding equal values: the result is false
C1_Witness ==
    /\ op = "call"
    /\ IsDict(actual) /\ IsDict(expected)
    /\ DOMAIN expected.v = {"k1"}
    /\ DOMAIN actual.v = {"k1", "k2"}
    /\ actual.v["k1"] = expected.v["k1"]
    /\ actual.v["k1"] = Num(0)
    /\ ~ret

\* the sum e + t + d and the difference actual - expected are computed exactly
ExactBoundary ==
    /\ actual.v = etd[1] + etd[2] + etd[3]
    /\ FSub(actual.v, expected.v) = actual.v - expected.v

\* C2 as stated: compare_results(e + t, e, t) is true and
\* compare_results(e + t + d, e, t) is false for every d > 0.
C2_Original == op = "boundary" => (ret <=> etd[3] = 0)

\* C2 amended: the test is the float test |actual - expected| <= t, absolute and
\* inclusive; it is true at e + t and false at e + t + d, d > 0, whenever the sum
\* and the difference are computed without rounding.
C2_Boundary ==
    op = "boundary" =>
        /\ ret <=> (Abs(FSub(actual.v, expected.v)) <= tolerance)
        /\ ExactBoundary => (ret <=> etd[3] = 0)

\* a large expected value, a small tolerance, the boundary exactly hit
C2_Witness ==
    /\ op = "boundary"
    /\ etd = <<Pow2(MantBits), 2, 0>>
    /\ ExactBoundary
    /\ ret

\* C3: compare_results(None, None, t) is true and compare_results(0, None, t) is
\* false for every t; an absent expected value matches only an absent actual
\* value, an absent actual value never matches a present expected number.
C3_NullPropagation ==
    op = "call" =>
        /\ (actual = NoneV /\ expected = NoneV) => ret
        /\ (actual = Num(0) /\ expected = NoneV) => ~ret
        /\ (expected = NoneV) => (ret <=> actual = NoneV)
        /\ (actual = NoneV /\ expected.k = "num") => ~ret

\* a zero against an absent expected value under the largest tolerance
C3_Witness ==
    /\ op = "call"
    /\ actual = Num(0)
    /\ expected = NoneV
    /\ tolerance = Pow2(MantBits)
    /\ ~ret

\* a nested value without NaN
RECURSIVE WellFormed(_)
WellFormed(x) ==
    IF IsDict(x) THEN \A key \in DOMAIN x.v : WellFormed(x.v[key]) ELSE x.k # "nan"

\* C4: compare_results(x, x, t) is true for every t >= 0 and every well-formed
\* nested value x.
C4_Reflexive ==
    (op = "call" /\ actual = expected /\ tolerance >= 0 /\ WellFormed(actual)) => ret

\* a dict holding a dict, compared with itself under tolerance 0
C4_Witness ==
    /\ op = "call"
    /\ actual = expected
    /\ tolerance = 0
    /\ IsDict(actual)
    /\ "k1" \in DOMAIN actual.v
    /\ IsDict(actual.v["k1"])
    /\ DOMAIN actual.v["k1"].v = {"k1", "k2"}
    /\ actual.v["k1"].v["k2"] = Num(1)
    /\ ret

\* -------------------------------------------------- time-comparison claims

IsCategory(cat) == pc \in {"generated", "graded"} /\ case.category = cat

\* C5: a grouped time-comparison case generated from a table is graded by
\* recomputing the per-group period sums from the table, and passes against it.
C5_GroupedCasePasses ==
    (pc = "graded" /\ case.category = "time_period_comparison_grouped") =>
        /\ outcome = "passed"
        /\ graded = case.expected_result

\* the rows of the grader's table that its window of a stored period selects,
\* in date order
GraderWindow(period) ==
    SortByDate(Window(df.rows, ToDatetime(period.v["start"].v), ToDatetime(period.v["end"].v)))

\* C6: an ungrouped time-comparison case generated from a table whose dates span
\* at least 2 days passes against that table: the grader's inclusive windows hold
\* exactly the rows of the generator's half-open split, and the recomputed result
\* equals the expected one.
C6_UngroupedCasePasses ==
    /\ (pc = "generated" /\ case.category = "time_period_comparison") =>
          DateRange(self_df.rows) >= 2
    /\ (pc = "graded" /\ case.category = "time_period_comparison") =>
          /\ GraderWindow(case.time_period_1) = Period1(self_df.rows)
          /\ GraderWindow(case.time_period_2) = Period2(self_df.rows)
          /\ graded = case.expected_result
          /\ outcome = "passed"

\* three unsorted rows, period 2 starting after the split day, a change of -66.67
C6_Witness ==
    /\ pc = "graded"
    /\ case.category = "time_period_comparison"
    /\ Len(df.rows) = 3
    /\ df.rows # self_df.rows
    /\ ToDatetime(case.time_period_2.v["start"].v) > SplitPoint(self_df.rows)
    /\ Len(Period2(self_df.rows)) = 2
    /\ case.expected_result.v["percent_change"] = Num(-(66 * Scale + 67 * SubCent))
    /\ outcome = "passed"

\* the difference and the guarded, rounded change of two period sums (in quanta)
GuardedChange(p1, p2, diff, pct) ==
    /\ diff = Num(p2 - p1)
    /\ (p1 = 0) => pct = NoneV
    /\ (p1 # 0) =>
          /\ pct.k = "num"
          /\ pct.v % SubCent = 0
          /\ 2 * Abs(pct.v * (p1 \div Scale) - ((p2 - p1) \div Scale) * 100 * Scale)
                <= (SubCent + 1) * (p1 \div Scale)

UngroupedGuard(res) ==
    GuardedChange(res.v["period_1_value"].v, res.v["period_2_value"].v,
                  res.v["absolute_difference"], res.v["percent_change"])

\* C10: absolute_difference is period2_sum - period1_sum; percent_change is null
\* when period1_sum is zero, else (period2_sum - period1_sum) / period1_sum * 100
\* rounded to 2 decimals; in the generator's ungrouped and grouped cases and in
\* the grader's recomputation.
C10_PercentChangeGuard ==
    /\ IsCategory("time_period_comparison") => UngroupedGuard(case.expected_result)
    /\ (pc = "graded" /\ case.category = "time_period_comparison") =>
          UngroupedGuard(graded)
    /\ IsCategory("time_period_comparison_grouped") =>
          \A group \in DOMAIN case.expected_result.v :
              LET g == case.expected_result.v[group].v
              IN  GuardedChange(g["period_1"].v, g["period_2"].v,
                                g["difference"], g["percent_change"])

\* period 1 sums to zero, period 2 does not: both sides report no change rate
C10_Witness ==
    /\ pc = "graded"
    /\ case.category = "time_period_comparison"
    /\ case.expected_result.v["period_1_value"] = Num(0)
    /\ case.expected_result.v["period_2_value"] = Num(3 * Scale)
    /\ case.expected_result.v["percent_change"] = NoneV
    /\ graded.v["percent_change"] = NoneV
    /\ outcome = "passed"

\* ------------------------------------------------------ aggregation claims

\* C7: every aggregation case and every custom-metric case generated from a
\* table passes against the same table; the grader recomputes the same keys and
\* the same values.
C7_GeneratedCasesPass ==
    (pc = "graded" /\ case.category \in {"data_aggregation", "data_aggregation_multi_group",
                                         "custom_metrics", "custom_metrics_grouped"}) =>
        /\ graded = case.expected_result
        /\ outcome = "passed"

\* a two-column case with two groups, one of them without a metric value
C7_Witness ==
    /\ pc = "graded"
    /\ case.category = "data_aggregation_multi_group"
    /\ case.aggregation_function = "mean"
    /\ DOMAIN case.expected_result.v = {"a_x", "b_y"}
    /\ case.expected_result.v["a_x"] = NoneV
    /\ case.expected_result.v["b_y"] = Num(2 * Scale)
    /\ outcome = "passed"

\* the rows of the generator's table that a single-column grouping keeps
GroupedRows(group_col) == SelectSeq(self_df.rows, LAMBDA r : r[group_col] # MissingStr)

\* C8: with fn = count a group's value is its number of rows, rows with a missing
\* metric included, so the counts sum to the number of rows kept by the grouping.
C8_CountCountsRows ==
    (pc = "generated" /\ case.category = "data_aggregation"
        /\ case.aggregation_function = "count") =>
        /\ \A key \in DOMAIN case.expected_result.v :
              case.expected_result.v[key] =
                  Num(Len(GroupRows(self_df.rows, case.group_by_column, key)) * Scale)
        /\ SeqSum([i \in 1..Len(GroupedRows(case.group_by_column)) |-> Scale]) =
              SeqSum(LET keys == DOMAIN case.expected_result.v
                         order == CHOOSE f \in [1..Cardinality(keys) -> keys] :
                                      \A k \in keys : \E i \in DOMAIN f : f[i] = k
                     IN  [i \in DOMAIN order |-> case.expected_result.v[order[i]].v])

\* C9: with fn in {sum, mean, min, max} a group whose rows all miss the metric
\* gets null, never zero.
C9_AllMissingIsNull ==
    (pc = "generated" /\ case.category = "data_aggregation"
        /\ case.aggregation_function \in {"sum", "mean", "min", "max"}) =>
        \A key \in DOMAIN case.expected_result.v :
            (Present(Column(GroupRows(self_df.rows, case.group_by_column, key),
                            case.metric_column)) = <<>>)
                => case.expected_result.v[key] = NoneV

\* C11: in a grouped time comparison every group key of period 1 or period 2
\* appears in the result; a group seen in one period only reports 0 for the other
\* period, and a zero or absent period-1 value reports percent_change = null.
C11_GroupedUnion ==
    IsCategory("time_period_comparison_grouped") =>
        LET g == case.group_by_column
            m == case.metric_column
            keys1 == GroupKeys(Period1(self_df.rows), g)
            keys2 == GroupKeys(Period2(self_df.rows), g)
            res == case.expected_result.v
        IN  /\ DOMAIN res = keys1 \cup keys2
            /\ \A key \in DOMAIN res :
                /\ key \notin keys1 =>
                      res[key].v["period_1"] = Num(0) /\ res[key].v["percent_change"] = NoneV
                /\ key \notin keys2 => res[key].v["period_2"] = Num(0)
                /\ key \in keys1 =>
                      res[key].v["period_1"] =
                          Num(PeriodSum(GroupRows(Period1(self_df.rows), g, key), m) * Scale)
                /\ key \in keys2 =>
                      res[key].v["period_2"] =
                          Num(PeriodSum(GroupRows(Period2(self_df.rows), g, key), m) * Scale)
                /\ res[key].v["period_1"] = Num(0) => res[key].v["percent_change"] = NoneV

\* group a is seen in period 1 only, group b in period 2 only
C11_Witness ==
    /\ IsCategory("time_period_comparison_grouped")
    /\ DOMAIN case.expected_result.v = {"a", "b"}
    /\ case.expected_result.v["a"].v["period_1"] = Num(1 * Scale)
    /\ case.expected_result.v["a"].v["period_2"] = Num(0)
    /\ case.expected_result.v["a"].v["percent_change"] = Num(-100 * Scale)
    /\ case.expected_result.v["b"].v["period_1"] = Num(0)
    /\ case.expected_result.v["b"].v["period_2"] = Num(3 * Scale)
    /\ case.expected_result.v["b"].v["percent_change"] = NoneV

\* C12: at the split min_date + (span_days // 2) period 1 holds the rows with
\* Date < split and period 2 those with Date >= split: every row of the table is
\* in exactly one of them, so the two period sums add up to the table's sum.
C12_Complementary ==
    IsCategory("time_period_comparison") =>
        LET rows == self_df.rows
            split == SplitPoint(rows)
            m == case.metric_column
        IN  /\ Period1(rows) \o Period2(rows) = rows
            /\ \A i \in 1..Len(rows) :
                  (rows[i]["Date"] < split) # (rows[i]["Date"] >= split)
            /\ \A i \in 1..Len(Period1(rows)) : Period1(rows)[i]["Date"] < split
            /\ \A i \in 1..Len(Period2(rows)) : Period2(rows)[i]["Date"] >= split
            /\ case.expected_result.v["period_1_value"].v
                 + case.expected_result.v["period_2_value"].v
                 = PeriodSum(rows, m) * Scale

\* three rows, one of them on the split day itself
C12_Witness ==
    /\ IsCategory("time_period_comparison")
    /\ Len(self_df.rows) = 3
    /\ Len(Period1(self_df.rows)) = 1
    /\ Period2(self_df.rows)[1]["Date"] = SplitPoint(self_df.rows)
    /\ case.expected_result.v["period_1_value"] = Num(1 * Scale)
    /\ case.expected_result.v["period_2_value"] = Num(4 * Scale)

\* ---------------------------------------------------- custom-metric claims

\* a row has every required cell and a non-zero denominator
Contributes(name, r) ==
    /\ \A c \in MetricColumns(name) : r[c] # Missing
    /\ r[Denominator(name)] # 0

\* the rows of the generator's table that contribute to a metric
Population(name) == SelectSeq(self_df.rows, LAMBDA r : Contributes(name, r))

\* C13: a row contributes to a custom-metric aggregate only if all its required
\* cells are present and the denominator is non-zero; the other rows are dropped
\* from the population, in the generator and in the grader.
C13_TwoStageFilter ==
    /\ IsCategory("custom_metrics") =>
        LET name == case.metric_name
            pop == Population(name)
            xs == MetricColumn(pop, name)
        IN  /\ pop # <<>>
            /\ case.expected_result =
                  CustomCase([self_df EXCEPT !.rows = pop], name,
                             case.aggregation_function).expected_result
            /\ case.aggregation_function = "sum" =>
                  case.expected_result = Num(Round2(SeqSum(xs)))
            /\ case.aggregation_function = "mean" =>
                  case.expected_result = Num(Round2(DivRound(SeqSum(xs), Len(pop))))
            /\ pc = "graded" => graded = case.expected_result
    /\ IsCategory("custom_metrics_grouped") =>
        LET name == case.metric_name
            pop == Population(name)
            g == case.group_by_column
        IN  /\ DOMAIN case.expected_result.v = {pop[i][g] : i \in 1..Len(pop)}
            /\ \A key \in DOMAIN case.expected_result.v :
                  LET xs == MetricColumn(GroupRows(pop, g, key), name)
                  IN  case.expected_result.v[key] =
                          Num(Round2(DivRound(SeqSum(xs), Len(xs))))
            /\ pc = "graded" => graded = case.expected_result

\* two rows, one with a zero cost: the mean ROI is the ROI of the other row
C13_Witness ==
    /\ pc = "graded"
    /\ case.category = "custom_metrics"
    /\ case.metric_name = "ROI"
    /\ case.aggregation_function = "mean"
    /\ Len(self_df.rows) = 2
    /\ Len(Population("ROI")) = 1
    /\ \E i \in 1..2 : self_df.rows[i]["Total Cost"] = 0
    /\ case.expected_result = Num(-(66 * Scale + 67 * SubCent))
    /\ outcome = "passed"

\* ------------------------------------------------- error and frame claims

\* C15: when the split leaves period 1 without rows (dates spanning fewer than
\* 2 days), generating a time-comparison case raises no exception and reports the
\* empty period's value as null.
C15_EmptyPeriodIsNull ==
    [][(/\ GenerateTimeComparison
        /\ numeric_columns(self_df) # {}
        /\ Period1(SortByDate(self_df.rows)) = <<>>)
          => (/\ pc' = "generated"
              /\ case'.expected_result.v["period_1_value"] = NoneV)]_vars

\* C20: the engines leave their table as it was read: the generator's table keeps
\* its rows in their order, the grader's shared table keeps its values and the
\* type of its Date column.
C20_TablesUnchanged ==
    pc \in {"generated", "skipped", "raised", "graded"} =>
        /\ self_df = df
        /\ date_dtype = "object"

\* ----------------------------------------------------- run_evaluation claims

\* the test function the last case was handed to
Family ==
    IF layout = "nested"
    THEN IF Contains(block, "data_aggregation") THEN "aggregation"
         ELSE IF Contains(block, "time_period_comparison") THEN "time"
         ELSE IF Contains(block, "custom_metrics") THEN "custom"
         ELSE "none"
    ELSE IF ~Has(case, "category") THEN "none"
         ELSE IF Contains(case.category, "aggregation") THEN "aggregation"
         ELSE IF Contains(case.category, "time") \/ Contains(case.category, "comparison")
              THEN "time"
         ELSE IF Contains(case.category, "custom") \/ Contains(case.category, "metric")
              THEN "custom"
         ELSE "none"

\* the last case went through its test function without an exception
Compared == counted # <<>> /\ outcome # "error" /\ Family # "none"

\* C14: when no row is left after the completeness and zero-denominator filters,
\* the aggregate computed for an ungrouped custom-metric case is null for mean,
\* sum and median, never zero.
C14_EmptyPopulationIsNull ==
    (/\ Compared
     /\ Family = "custom"
     /\ ~Has(case, "group_by_column")
     /\ CleanRows(df.rows, case.metric_name, case.required_columns) = <<>>)
        => graded = NoneV

\* C16: run_evaluation processes every case of the corpus: a case whose grading
\* raises on a missing field is counted failed once, the loop goes on, and at the
\* end passed + failed is the number of cases.
C16_EveryCaseCountedOnce ==
    /\ run # "aborted"
    /\ \A k \in DOMAIN counted : counted[k].passed + counted[k].failed = 1
    /\ passed + failed = Len(counted)
    /\ run = "done" => passed + failed = total

\* C17: a case whose category no branch of the dispatch takes is counted failed,
\* never passed and never skipped, in the nested and in the flat layout.
C17_UnrecognizedFails ==
    /\ \A k \in DOMAIN counted :
          counted[k].kind = "unrecognized" =>
              counted[k].passed = 0 /\ counted[k].failed >= 1
    /\ (counted # <<>> /\ counted[Len(counted)].kind = "unrecognized") =>
          /\ outcome = "failed"
          /\ (Has(case, "id") /\ Has(case, "question")) =>
                /\ counted[Len(counted)].failed = 1
                /\ counted[Len(counted)].lines = <<"FAILED">>

\* a flat corpus: a passing case, then a case of an unknown category
C17_Witness ==
    /\ layout = "flat"
    /\ run = "running"
    /\ Len(counted) = 2
    /\ counted[1].passed = 1
    /\ Has(case, "id") /\ Has(case, "question") /\ Has(case, "category")
    /\ case.category = "forecast"
    /\ counted[2].kind = "unrecognized"
    /\ passed = 1
    /\ failed = 1

\* C18: what is recorded and printed for a case of an unrecognized category
\* differs from what is recorded and printed for a value mismatch.
C18_Distinguishable ==
    \A j \in DOMAIN counted : \A k \in DOMAIN counted :
        (counted[j].kind = "unrecognized" /\ counted[k].kind = "mismatch") =>
            \/ counted[j].lines # counted[k].lines
            \/ counted[j].passed # counted[k].passed
            \/ counted[j].failed # counted[k].failed

\* C19: aggregation and custom-metric cases are compared with the same generic
\* tolerance, time-comparison cases with a strictly larger one.
C19_Tolerances ==
    /\ DefaultTolerance < WideTolerance
    /\ (Compared /\ Has(case, "expected_result") /\ Family \in {"aggregation", "custom"}) =>
          ((outcome = "passed") <=>
              compare_results(graded, case.expected_result, DefaultTolerance))
    /\ (Compared /\ Has(case, "expected_result") /\ Family = "time") =>
          ((outcome = "passed") <=>
              compare_results(graded, case.expected_result, WideTolerance))

\* C27: each of the six categories the generator writes reaches the same engine
\* in both layouts: the nested loop, which looks at the name of the block
\* generate_all_evals puts the case in, and the flat loop, which looks at the
\* case's own category, call the same test function, and a graded case got the
\* result that the other layout's dispatch gives.
GeneratedCategories ==
    {"data_aggregation", "data_aggregation_multi_group",
     "time_period_comparison", "time_period_comparison_grouped",
     "custom_metrics", "custom_metrics_grouped"}

C27_SameEngine ==
    (pc \in {"generated", "graded"}) =>
        /\ case.category \in GeneratedCategories
        /\ EngineNested(BlockOf(case)) = EngineFlat(case.category)
        /\ EngineNested(BlockOf(case)) # "none"
        /\ (pc = "graded") =>
              /\ outcome = Outcome(DispatchNested(BlockOf(case), case, df))
              /\ outcome = Outcome(DispatchFlat(case, df))

C27_Witness ==
    /\ pc = "graded"
    /\ case.category = "time_period_comparison_grouped"
    /\ BlockOf(case) = "time_period_comparison"
    /\ EngineFlat(case.category) = "test_time_comparison_case"

\* C25: in a two-column aggregation whose group values hold no "_", distinct
\* observed pairs get distinct keys: the expected mapping has one entry per
\* observed pair, each with the aggregate of that pair's rows, and the grader's
\* keys are the same; two distinct observed pairs with one key have a value that
\* holds "_".
HoldsSeparator(p) == Contains(p[1], "_") \/ Contains(p[2], "_")

ObservedPairs == PairKeys(self_df.rows, case.group_by_columns)

C25_DistinctKeys ==
    (pc = "generated" /\ case.category = "data_aggregation_multi_group") =>
        /\ (\A p \in ObservedPairs : ~HoldsSeparator(p)) =>
              /\ Cardinality(DOMAIN case.expected_result.v) = Cardinality(ObservedPairs)
              /\ \A p \in ObservedPairs :
                    /\ PairKeyGen(p) \in DOMAIN case.expected_result.v
                    /\ PairKeyGrader(p) = PairKeyGen(p)
                    /\ case.expected_result.v[PairKeyGen(p)] =
                          NotnaFloat(SeriesAgg(case.aggregation_function,
                              Column(PairRows(self_df.rows, case.group_by_columns, p),
                                     case.metric_column)))
        /\ \A p \in ObservedPairs, q \in ObservedPairs :
              (p # q /\ PairKeyGen(p) = PairKeyGen(q)) =>
                  (HoldsSeparator(p) \/ HoldsSeparator(q))

C25_Witness ==
    /\ pc = "generated"
    /\ case.category = "data_aggregation_multi_group"
    /\ Cardinality(ObservedPairs) = 2
    /\ \A p \in ObservedPairs : ~HoldsSeparator(p)
    /\ Cardinality(DOMAIN case.expected_result.v) = 2

\* two distinct observed pairs written under one key
C25_Collision ==
    /\ pc = "generated"
    /\ case.category = "data_aggregation_multi_group"
    /\ Cardinality(ObservedPairs) = 2
    /\ Cardinality(DOMAIN case.expected_result.v) = 1

\* ------------------------------------------------ generator loop claims

\* the number of cases generate_custom_metrics_evals has appended
CustomEmitted(e) == e["custom_metrics"] + e["custom_metrics_grouped"]

\* C21: while generate_custom_metrics_evals runs, a draw appends one case or
\* none; a case it appends is a custom-metric case whose required columns are all
\* columns of the table, so a draw of a metric with an absent column appends
\* nothing; on a table with the columns of no metric nothing is ever appended;
\* and the list never holds more than num_cases + 5 cases.
C21_SkippedNotDefaulted ==
    [][(gen \in {"custom_metrics", "custom_metrics_grouped"}) =>
          /\ CustomEmitted(emitted') \in {CustomEmitted(emitted), CustomEmitted(emitted) + 1}
          /\ CustomEmitted(emitted') <= num_cases + GroupedCases
          /\ (gen' = "custom_metrics") => CustomEmitted(emitted') <= iter'
          /\ (gen' = "custom_metrics_grouped") => CustomEmitted(emitted') <= num_cases + iter'
          /\ (CustomEmitted(emitted') = CustomEmitted(emitted) + 1) =>
                /\ case'.category \in {"custom_metrics", "custom_metrics_grouped"}
                /\ case'.required_columns \subseteq self_df.columns
                /\ case'.required_columns = MetricColumns(case'.metric_name)
          /\ (\A name \in MetricNames : ~(MetricColumns(name) \subseteq self_df.columns)) =>
                emitted' = emitted]_vars

\* a draw of the first loop was skipped on a table that has the columns of some
\* metrics only, and whose rows leave every such metric a population
C21_Witness ==
    /\ gen = "custom_metrics"
    /\ self_df.rows = SortByDate(SourceTable.rows)
    /\ \E name \in MetricNames : ~(MetricColumns(name) \subseteq self_df.columns)
    /\ \A name \in MetricNames :
          (MetricColumns(name) \subseteq self_df.columns) => ~CustomSkipped(self_df, name)
    /\ iter = 2
    /\ CustomEmitted(emitted) = 1
    /\ case.category = "custom_metrics"

\* C24: after main() ran with --agg-cases, --time-cases and --custom-cases, the
\* generator has produced as many single-column aggregation cases and
\* time-comparison cases as the options say, and at most as many custom-metric
\* cases as --custom-cases says.
C24_OptionsSetCounts ==
    (gen = "returned" /\ args # NoArgs) =>
        /\ emitted["data_aggregation"] = args.agg_cases
        /\ emitted["time_period_comparison"] = args.time_cases
        /\ emitted["custom_metrics"] <= args.custom_cases

\* ------------------------------------------- generate_row_function claims

\* C22: every call of generate_row_function comes to return, without having
\* started a fourth attempt (a raise ends the call and is never followed by a
\* return); what it returns is the text of the response that passed its checks,
\* in the attempt that got it, or, only when the third attempt failed too, the
\* code of the fallback generator for the columns.
C22_ReturnsCode ==
    <>(/\ rpc = "returned"
       /\ attempt < max_retries
       /\ \/ /\ function_code.source = "model"
             /\ Accepted(response)
             /\ function_code.entries = <<response>>
          \/ /\ function_code.source = "fallback"
             /\ attempt = max_retries - 1
             /\ ~Accepted(response)
             /\ Len(function_code.entries) = Len(cols))

\* the fallback code returned after three attempts, the last of which got a text
\* too short to be accepted
C22_Witness ==
    /\ rpc = "returned"
    /\ function_code.source = "fallback"
    /\ attempt = max_retries - 1
    /\ Len(slept) = max_retries - 1
    /\ response.kind = "text"
    /\ response.code = MinAccepted

\* C26: within an attempt the models are called in the order of the list; every
\* model called before the last call of the attempt raised or returned no text;
\* the loop stops at the first response with a text; a call makes at most
\* 3 x 4 model calls; the sleeps follow the first and the second attempt only,
\* one each, and none follows the attempt that returns.
C26_OrderedCalls ==
    /\ Len(tried) <= Len(models_to_try)
    /\ \A k \in DOMAIN tried :
          /\ tried[k].model = models_to_try[k]
          /\ (k < Len(tried)) => tried[k].printed \in {"failed", "returned empty response"}
          /\ (tried[k].printed = "responded successfully") => (k = Len(tried) /\ rpc # "models")
    /\ (rpc = "models") => model = Len(tried) + 1
    /\ model_calls <= max_retries * Len(models_to_try)
    /\ model_calls <= attempt * Len(models_to_try) + Len(tried)
    /\ Len(slept) = attempt
    /\ \A j \in DOMAIN slept : slept[j] = j - 1 /\ slept[j] < max_retries - 1
    /\ rpc # "raised"

\* twelve model calls, two sleeps, and the return
C26_Witness ==
    /\ rpc = "returned"
    /\ model_calls = max_retries * Len(models_to_try)
    /\ slept = <<0, 1>>

\* the words of each kind as the claim lists them
ListedExpr(col_lower) ==
    IF AnyWord(col_lower, {"id", "key"})
    THEN "random.randint(1, 10000)"
    ELSE IF AnyWord(col_lower, {"date", "time"})
    THEN "fake.date_between(start_date=\"-1y\", end_date=\"today\").strftime(\"%Y-%m-%d\")"
    ELSE IF AnyWord(col_lower, {"email"})
    THEN "fake.email()"
    ELSE IF AnyWord(col_lower, {"amount", "price", "cost", "revenue"})
    THEN "round(random.uniform(10, 1000), 2)"
    ELSE IF AnyWord(col_lower, {"count", "number", "quantity"})
    THEN "random.randint(1, 100)"
    ELSE IF AnyWord(col_lower, {"status", "type", "category"})
    THEN "random.choice([\"active\", \"inactive\", \"pending\", \"completed\"])"
    ELSE "fake.word()"

\* C23 as stated: the fallback code gives every column the expression of the
\* first listed kind one of whose words its lower-cased name holds, and a generic
\* word to every other column.
C23_Original ==
    (rpc = "returned" /\ function_code.source = "fallback") =>
        \A k \in DOMAIN function_code.entries :
            \E col_lower \in {lower(cols[k])} :
                function_code.entries[k] = <<cols[k], ListedExpr(col_lower)>>

\* the expression of the entry of column k is e
Gives(k, e) == function_code.entries[k][2] = e

\* the word lists of the kinds, in the order they are tried
IntegerWords == {"id", "key", "index"}
DateWords == {"date", "time", "created", "updated"}
EmailWords == {"email", "mail"}
NameWords == {"name", "title"}
FloatWords == {"amount", "price", "cost", "revenue", "value"}
CountWords == {"count", "number", "quantity"}
StatusWords == {"status", "type", "category"}

\* C23, amended: the fallback code has one entry per column, in order; a name
\* with id/key/index gets an integer; else with date/time/created/updated a
\* recent date; else with email/mail an email; else with name/title a person's
\* name; else with amount/price/cost/revenue/value a currency-like float; else
\* with count/number/quantity a small integer; else with status/type/category
\* one of four fixed words; a generic word exactly when the name holds none of
\* these words.  The code is a function of the column list.
C23_FallbackKinds ==
    (rpc = "returned" /\ function_code.source = "fallback") =>
        /\ Len(function_code.entries) = Len(cols)
        /\ function_code = generate_fallback_function(cols)
        /\ \A k \in DOMAIN function_code.entries :
            \E name \in {lower(cols[k])} :
            /\ function_code.entries[k][1] = cols[k]
            /\ Gives(k, "random.randint(1, 10000)") <=> AnyWord(name, IntegerWords)
            /\ Gives(k, "fake.date_between(start_date=\"-1y\", end_date=\"today\").strftime(\"%Y-%m-%d\")")
                  <=> /\ AnyWord(name, DateWords)
                      /\ ~AnyWord(name, IntegerWords)
            /\ Gives(k, "fake.email()")
                  <=> /\ AnyWord(name, EmailWords)
                      /\ ~AnyWord(name, IntegerWords \cup DateWords)
            /\ Gives(k, "fake.name()")
                  <=> /\ AnyWord(name, NameWords)
                      /\ ~AnyWord(name, IntegerWords \cup DateWords \cup EmailWords)
            /\ Gives(k, "round(random.uniform(10, 1000), 2)")
                  <=> /\ AnyWord(name, FloatWords)
                      /\ ~AnyWord(name, IntegerWords \cup DateWords \cup EmailWords
                                            \cup NameWords)
            /\ Gives(k, "random.randint(1, 100)")
                  <=> /\ AnyWord(name, CountWords)
                      /\ ~AnyWord(name, IntegerWords \cup DateWords \cup EmailWords
                                            \cup NameWords \cup FloatWords)
            /\ Gives(k, "random.choice([\"active\", \"inactive\", \"pending\", \"completed\"])")
                  <=> /\ AnyWord(name, StatusWords)
                      /\ ~AnyWord(name, IntegerWords \cup DateWords \cup EmailWords
                                            \cup NameWords \cup FloatWords \cup CountWords)
            /\ Gives(k, "fake.word()")
                  <=> ~AnyWord(name, IntegerWords \cup DateWords \cup EmailWords
                                         \cup NameWords \cup FloatWords \cup CountWords
                                         \cup StatusWords)

\* the fallback code of a list with a name column: a person's name, not a word
C23_Witness ==
    /\ rpc = "returned"
    /\ function_code.source = "fallback"
    /\ cols = SampleColumns
    /\ function_code.entries[1] = <<"Campaign Name", "fake.name()">>
    /\ \E col_lower \in {lower(cols[1])} : ListedExpr(col_lower) = "fake.word()"
    /\ function_code.entries[2] = <<"Bid Amount", "random.randint(1, 10000)">>
    /\ function_code.entries[9] = <<"Region", "fake.word()">>

====
